---- MODULE Spec2Model ----
(***************************************************************************)
(* suiviPDR: the Express route layer (server/routes.ts), the Drizzle       *)
(* storage layer (server/storage.ts) and the table/insert schemas          *)
(* (shared/schema.ts), as one state machine.  One action per route; an     *)
(* action is the whole request: middleware chain, validator, storage call  *)
(* and the response.                                                       *)
(***************************************************************************)
EXTENDS Integers, Sequences, FiniteSets, TLC

VARIABLES
    localUsers,          \* table local_users: set of rows
    projects,            \* table projects
    conventions,         \* table conventions
    partners,            \* table partners
    projectPartners,     \* table project_partners
    conventionProjects,  \* table convention_projects
    financialAdvances,   \* table financial_advances
    serial,              \* last value handed out by each table's id sequence
    now,                 \* the clock read by defaultNow() and new Date()
    session,             \* req.session per client: <<>> or <<localUser>>
    resp,                \* the response to the last request
    client               \* the page in the browser: React state of the mounted components

store == <<localUsers, projects, conventions, partners, projectPartners,
           conventionProjects, financialAdvances>>
vars == <<localUsers, projects, conventions, partners, projectPartners,
          conventionProjects, financialAdvances, serial, now, session, resp, client>>

(* ------------------------------ bounds -------------------------------- *)
MaxInserts == 2     \* INSERT statements executed in a run, over all tables
MaxTime == 1        \* clock ticks
NumSalts == 1       \* salts bcrypt may draw
\* The accounts the deployment starts with: admin, user1, superviseur1.
SeedUsers == 3

(* --------------------------- JSON values ------------------------------ *)
\* A JSON / SQL value is a triple <<type, string, number>>, so that values of
\* different types can be told apart and compared.
Str(s) == <<"string", s, 0>>
Num(n) == <<"number", "", n>>
Null == <<"null", "", 0>>
TypeOf(v) == v[1]
\* JavaScript truthiness of a property that may be absent (undefined).
Truthy(body, k) ==
    /\ k \in DOMAIN body
    /\ body[k] # Null
    /\ body[k] # Str("")
    /\ body[k] # Num(0)

Has(body, k) == k \in DOMAIN body
\* { k: v, ...body }: a property of the body wins over k.
SpreadUnder(body, k, v) ==
    [f \in DOMAIN body \cup {k} |-> IF f \in DOMAIN body THEN body[f] ELSE v]
\* { ...body, k: v }
Spread(body, k, v) == [f \in DOMAIN body \cup {k} |-> IF f = k THEN v ELSE body[f]]
\* the object with no properties
EmptyObject == [f \in {} |-> Null]

(* ------------------------------ schemas ------------------------------- *)
\* createInsertSchema(table).omit(...): one descriptor per remaining column.
\* required: notNull without default; nullable: column without notNull.
Col(name, type, required, nullable) ==
    [name |-> name, type |-> type, required |-> required, nullable |-> nullable]

insertLocalUserSchema ==
    { Col("username", "string", TRUE, FALSE),
      Col("password", "string", TRUE, FALSE),
      Col("role", "string", FALSE, FALSE) }

insertProjectSchema ==
    { Col("identifier", "string", TRUE, FALSE),
      Col("title", "string", TRUE, FALSE),
      Col("axis", "string", TRUE, FALSE),
      Col("domain", "string", TRUE, FALSE),
      Col("region", "string", TRUE, FALSE),
      Col("province", "string", TRUE, FALSE),
      Col("commune", "string", TRUE, FALSE),
      Col("budget", "string", TRUE, FALSE),
      Col("engagements", "string", FALSE, TRUE),
      Col("payments", "string", FALSE, TRUE),
      Col("physicalProgress", "number", FALSE, TRUE),
      Col("status", "string", FALSE, FALSE) }

insertConventionSchema ==
    { Col("title", "string", TRUE, FALSE),
      Col("dateVisa", "string", FALSE, TRUE),
      Col("status", "string", TRUE, FALSE),
      Col("programme", "string", TRUE, FALSE),
      Col("documentUrl", "string", FALSE, TRUE) }

insertPartnerSchema ==
    { Col("name", "string", TRUE, FALSE),
      Col("type", "string", TRUE, FALSE) }

insertProjectPartnerSchema ==
    { Col("projectId", "number", TRUE, FALSE),
      Col("partnerId", "number", TRUE, FALSE),
      Col("year", "number", TRUE, FALSE),
      Col("plannedContribution", "string", TRUE, FALSE),
      Col("actualContribution", "string", FALSE, TRUE),
      Col("status", "string", FALSE, FALSE) }

insertConventionProjectSchema ==
    { Col("conventionId", "number", TRUE, FALSE),
      Col("projectId", "number", TRUE, FALSE) }

insertFinancialAdvanceSchema ==
    { Col("projectId", "number", TRUE, FALSE),
      Col("referenceDate", "string", TRUE, FALSE),
      Col("engagement", "string", TRUE, FALSE),
      Col("payment", "string", TRUE, FALSE) }

\* schema.parse(body) / schema.partial().parse(body): the ZodError issues, one per
\* offending field, and the parsed data (unknown keys stripped).
ZodIssues(schema, body, partial) ==
    { [path |-> c.name,
       message |-> IF ~Has(body, c.name) THEN "Required" ELSE "Invalid type"] :
        c \in { d \in schema :
                  IF ~Has(body, d.name)
                  THEN d.required /\ ~partial
                  ELSE IF body[d.name] = Null
                       THEN ~d.nullable
                       ELSE TypeOf(body[d.name]) # d.type } }

ZodData(schema, body) ==
    [k \in DOMAIN body \cap { c.name : c \in schema } |-> body[k]]

(* ------------------------- column conversions ------------------------- *)
\* decimal(15, 2): the text PostgreSQL stores and returns for a numeric input
\* text, "ERR" when the text is no number (invalid input syntax).
NumericIn(text) ==
    CASE text = "0" -> "0.00"
      [] text = "100" -> "100.00"
      [] text = "100.00" -> "100.00"
      [] text = "250.5" -> "250.50"
      [] text = "250.50" -> "250.50"
      [] OTHER -> "ERR"

\* date: the text stored for a date input text, "ERR" when it is no date.
DateIn(text) ==
    CASE text = "2025-07-11" -> "2025-07-11"
      [] text = "2025-07-14" -> "2025-07-14"
      [] OTHER -> "ERR"

\* A nullable column converted by conv: NULL stays NULL.
ColumnIn(type, text) == IF type = "decimal" THEN NumericIn(text) ELSE DateIn(text)
NullableIn(v, type) == IF v = Null THEN Null ELSE Str(ColumnIn(type, v[2]))
BadNullable(v, type) == v # Null /\ ColumnIn(type, v[2]) = "ERR"

\* The part of a password bcrypt uses: its first 72 bytes. The texts "x72a" and
\* "x72b" stand for the same 72 bytes followed by one more byte, a and b.
Bytes72(password) ==
    CASE password \in {"x72a", "x72b"} -> "x72"
      [] OTHER -> password
\* bcrypt.hash(password, 10) with the salt it drew, and bcrypt.compare.
bcryptHash(password, salt) == <<"$2b$10$", salt, Bytes72(password)>>
bcryptCompare(password, hash) == bcryptHash(password, hash[2]) = hash

Row(table, id) == { r \in table : r.id = id }
\* const [row] = await db.select()...: <<>> stands for undefined
First(rows) == IF rows = {} THEN <<>> ELSE <<CHOOSE r \in rows : TRUE>>
\* The value of column k after an update that may set it
Set(data, k, old) == IF Has(data, k) THEN data[k] ELSE old
\* Storage calls return [threw, result, table]: whether the statement raised
\* a database error, the rows destructured from returning(), the new table.
Threw(table) == [threw |-> TRUE, result |-> <<>>, table |-> table]
Returned(result, table) == [threw |-> FALSE, result |-> result, table |-> table]

(* ------------------------------ storage ------------------------------- *)
\* DatabaseStorage.getProject
getProject(id) == First(Row(projects, id))

\* The row INSERT would build if the status column defaulted to 'inactive'.
ProjectRowInactive(project, id, at) ==
    [id |-> id,
     identifier |-> project.identifier[2],
     title |-> project.title[2],
     axis |-> project.axis[2],
     domain |-> project.domain[2],
     region |-> project.region[2],
     province |-> project.province[2],
     commune |-> project.commune[2],
     budget |-> NumericIn(project.budget[2]),
     engagements |-> NullableIn(Set(project, "engagements", Str("0")), "decimal"),
     payments |-> NullableIn(Set(project, "payments", Str("0")), "decimal"),
     physicalProgress |-> Set(project, "physicalProgress", Num(0)),
     status |-> Set(project, "status", Str("inactive"))[2],
     createdAt |-> at,
     updatedAt |-> at]

\* The row INSERT builds from the values given: absent columns take their
\* default, id the sequence value, created_at and updated_at defaultNow().
ProjectRow(project, id, at) ==
    [id |-> id,
     identifier |-> project.identifier[2],
     title |-> project.title[2],
     axis |-> project.axis[2],
     domain |-> project.domain[2],
     region |-> project.region[2],
     province |-> project.province[2],
     commune |-> project.commune[2],
     budget |-> NumericIn(project.budget[2]),
     engagements |-> NullableIn(Set(project, "engagements", Str("0")), "decimal"),
     payments |-> NullableIn(Set(project, "payments", Str("0")), "decimal"),
     physicalProgress |-> Set(project, "physicalProgress", Num(0)),
     status |-> Set(project, "status", Str("active"))[2],
     createdAt |-> at,
     updatedAt |-> at]

\* createProject on a table whose identifier column is not unique.
createProjectNotUnique(project, id) ==
    LET row == [id |-> id,
                identifier |-> project.identifier[2],
                title |-> project.title[2],
                axis |-> project.axis[2],
                domain |-> project.domain[2],
                region |-> project.region[2],
                province |-> project.province[2],
                commune |-> project.commune[2],
                budget |-> NumericIn(project.budget[2]),
                engagements |-> NullableIn(Set(project, "engagements", Str("0")), "decimal"),
                payments |-> NullableIn(Set(project, "payments", Str("0")), "decimal"),
                physicalProgress |-> Set(project, "physicalProgress", Num(0)),
                status |-> Set(project, "status", Str("active"))[2],
                createdAt |-> now,
                updatedAt |-> now]
    IN  IF \/ row.budget = "ERR"
           \/ BadNullable(Set(project, "engagements", Str("0")), "decimal")
           \/ BadNullable(Set(project, "payments", Str("0")), "decimal")
        THEN Threw(projects)
        ELSE Returned(<<row>>, projects \cup {row})

\* DatabaseStorage.createProject: insert(projects).values(project).returning()
createProject(project, id) ==
    LET row == ProjectRow(project, id, now)
    IN  IF \/ row.budget = "ERR"
           \/ BadNullable(Set(project, "engagements", Str("0")), "decimal")
           \/ BadNullable(Set(project, "payments", Str("0")), "decimal")
           \/ \E p \in projects : p.identifier = row.identifier
        THEN Threw(projects)
        ELSE Returned(<<row>>, projects \cup {row})

\* updateProject whose UPDATE has no WHERE clause.
updateProjectEveryRow(id, project) ==
    LET Upd(p) ==
          [id |-> p.id,
           identifier |-> Set(project, "identifier", Str(p.identifier))[2],
           title |-> Set(project, "title", Str(p.title))[2],
           axis |-> Set(project, "axis", Str(p.axis))[2],
           domain |-> Set(project, "domain", Str(p.domain))[2],
           region |-> Set(project, "region", Str(p.region))[2],
           province |-> Set(project, "province", Str(p.province))[2],
           commune |-> Set(project, "commune", Str(p.commune))[2],
           budget |-> IF Has(project, "budget")
                      THEN NumericIn(project.budget[2]) ELSE p.budget,
           engagements |-> IF Has(project, "engagements")
                           THEN NullableIn(project.engagements, "decimal")
                           ELSE p.engagements,
           payments |-> IF Has(project, "payments")
                        THEN NullableIn(project.payments, "decimal")
                        ELSE p.payments,
           physicalProgress |-> Set(project, "physicalProgress", p.physicalProgress),
           status |-> Set(project, "status", Str(p.status))[2],
           createdAt |-> p.createdAt,
           updatedAt |-> now]
        new == { Upd(p) : p \in projects }
    IN  IF \/ Has(project, "budget") /\ NumericIn(project.budget[2]) = "ERR"
           \/ Has(project, "engagements") /\ BadNullable(project.engagements, "decimal")
           \/ Has(project, "payments") /\ BadNullable(project.payments, "decimal")
        THEN Threw(projects)
        ELSE Returned(First({ n \in new : n.id = id }), new)

\* DatabaseStorage.updateProject:
\* update(projects).set({...project, updatedAt: new Date()}).where(id).returning()
updateProject(id, project) ==
    LET Upd(p) ==
          [id |-> p.id,
           identifier |-> Set(project, "identifier", Str(p.identifier))[2],
           title |-> Set(project, "title", Str(p.title))[2],
           axis |-> Set(project, "axis", Str(p.axis))[2],
           domain |-> Set(project, "domain", Str(p.domain))[2],
           region |-> Set(project, "region", Str(p.region))[2],
           province |-> Set(project, "province", Str(p.province))[2],
           commune |-> Set(project, "commune", Str(p.commune))[2],
           budget |-> IF Has(project, "budget")
                      THEN NumericIn(project.budget[2]) ELSE p.budget,
           engagements |-> IF Has(project, "engagements")
                           THEN NullableIn(project.engagements, "decimal")
                           ELSE p.engagements,
           payments |-> IF Has(project, "payments")
                        THEN NullableIn(project.payments, "decimal")
                        ELSE p.payments,
           physicalProgress |-> Set(project, "physicalProgress", p.physicalProgress),
           status |-> Set(project, "status", Str(p.status))[2],
           createdAt |-> p.createdAt,
           updatedAt |-> now]
        hit == Row(projects, id)
        rest == projects \ hit
        new == { Upd(p) : p \in hit }
    IN  IF \/ Has(project, "budget") /\ NumericIn(project.budget[2]) = "ERR"
           \/ Has(project, "engagements") /\ BadNullable(project.engagements, "decimal")
           \/ Has(project, "payments") /\ BadNullable(project.payments, "decimal")
           \/ \E n \in new, p \in rest : n.identifier = p.identifier
        THEN Threw(projects)
        ELSE Returned(First(new), rest \cup new)

\* DatabaseStorage.deleteProject
deleteProject(id) == Returned(<<>>, projects \ Row(projects, id))

\* The order PostgreSQL gives the texts of the model (ORDER BY on a text column).
TextOrder == <<"", "2025-07-11", "2025-07-14", "Barrage", "Piste", "Piste rurale",
               "PDR-001", "PDR-002">>
TextRank(s) == CHOOSE i \in 1..Len(TextOrder) : TextOrder[i] = s
\* The numeric value (in hundredths) of a stored decimal(15, 2) text.
NumericValue(text) ==
    CASE text = "0.00" -> 0
      [] text = "100.00" -> 10000
      [] text = "250.50" -> 25050

\* The characters of a text, for LIKE.
Chars(s) ==
    CASE s = "" -> <<>>
      [] s = "Piste" -> <<"P", "i", "s", "t", "e">>
      [] s = "Piste rurale" -> <<"P", "i", "s", "t", "e", " ", "r", "u", "r", "a", "l", "e">>
      [] s = "Barrage" -> <<"B", "a", "r", "r", "a", "g", "e">>
      [] s = "rr" -> <<"r", "r">>
      [] s = "_iste" -> <<"_", "i", "s", "t", "e">>
      [] s = "piste" -> <<"p", "i", "s", "t", "e">>
      [] OTHER -> <<"?">>

\* text LIKE pattern: % matches any run of characters, _ any one character.
RECURSIVE LikeMatch(_, _)
LikeMatch(text, pattern) ==
    IF pattern = <<>> THEN text = <<>>
    ELSE IF Head(pattern) = "%"
         THEN \/ LikeMatch(text, Tail(pattern))
              \/ text # <<>> /\ LikeMatch(Tail(text), pattern)
         ELSE /\ text # <<>>
              /\ Head(pattern) \in {"_", Head(text)}
              /\ LikeMatch(Tail(text), Tail(pattern))
\* like(column, `%${search}%`)
like(text, search) == LikeMatch(Chars(text), <<"%">> \o Chars(search) \o <<"%">>)

\* The sequences a SELECT may return for a set of rows: every order of the rows
\* that agrees with ORDER BY key ASC/DESC (rows with equal keys in any order).
Perms(S) ==
    { q \in [1..Cardinality(S) -> S] : \A i, j \in 1..Cardinality(S) : i # j => q[i] # q[j] }
\* A SELECT whose ORDER BY is dropped.
Unordered(S, key, descending) == Perms(S)
Ordered(S, key, descending) ==
    { q \in Perms(S) :
        \A i \in 1..(Len(q) - 1) :
            IF descending THEN key[q[i]] >= key[q[i + 1]] ELSE key[q[i]] <= key[q[i + 1]] }

\* getProjects with "desc" as the default of sortOrder.
getProjectsNewestFirst(search, sortBy, sortOrder) ==
    LET order == IF sortOrder = "" THEN "desc" ELSE sortOrder
        rows == IF search # "" THEN { p \in projects : like(p.title, search) } ELSE projects
        key == [p \in rows |->
                 CASE sortBy = "identifier" -> TextRank(p.identifier)
                   [] sortBy = "title" -> TextRank(p.title)
                   [] sortBy = "axis" -> TextRank(p.axis)
                   [] sortBy = "domain" -> TextRank(p.domain)
                   [] sortBy = "budget" -> NumericValue(p.budget)
                   [] OTHER -> p.createdAt]
    IN  { q \in Perms(rows) :
            \A i \in 1..(Len(q) - 1) :
                IF order = "desc" THEN key[q[i]] >= key[q[i + 1]]
                                  ELSE key[q[i]] <= key[q[i + 1]] }

\* DatabaseStorage.getProjects(search, sortBy, sortOrder = "asc"); an absent
\* argument (undefined) is the empty text.
getProjects(search, sortBy, sortOrder) ==
    LET order == IF sortOrder = "" THEN "asc" ELSE sortOrder
        rows == IF search # "" THEN { p \in projects : like(p.title, search) } ELSE projects
        key == [p \in rows |->
                 CASE sortBy = "identifier" -> TextRank(p.identifier)
                   [] sortBy = "title" -> TextRank(p.title)
                   [] sortBy = "axis" -> TextRank(p.axis)
                   [] sortBy = "domain" -> TextRank(p.domain)
                   [] sortBy = "budget" -> NumericValue(p.budget)
                   [] OTHER -> p.createdAt]
    IN  Ordered(rows, key, order = "desc")

(* conventions *)
getConventions == Ordered(conventions, [c \in conventions |-> c.createdAt], TRUE)
getConvention(id) == First(Row(conventions, id))

createConvention(convention, id) ==
    LET dateVisa == Set(convention, "dateVisa", Null)
        row == [id |-> id,
                title |-> convention.title[2],
                dateVisa |-> NullableIn(dateVisa, "date"),
                status |-> convention.status[2],
                programme |-> convention.programme[2],
                documentUrl |-> Set(convention, "documentUrl", Null),
                createdAt |-> now,
                updatedAt |-> now]
    IN  IF BadNullable(dateVisa, "date")
        THEN Threw(conventions)
        ELSE Returned(<<row>>, conventions \cup {row})

updateConvention(id, convention) ==
    LET Upd(c) ==
          [id |-> c.id,
           title |-> Set(convention, "title", Str(c.title))[2],
           dateVisa |-> IF Has(convention, "dateVisa")
                        THEN NullableIn(convention.dateVisa, "date") ELSE c.dateVisa,
           status |-> Set(convention, "status", Str(c.status))[2],
           programme |-> Set(convention, "programme", Str(c.programme))[2],
           documentUrl |-> Set(convention, "documentUrl", c.documentUrl),
           createdAt |-> c.createdAt,
           updatedAt |-> now]
        hit == Row(conventions, id)
        new == { Upd(c) : c \in hit }
    IN  IF Has(convention, "dateVisa") /\ BadNullable(convention.dateVisa, "date")
        THEN Threw(conventions)
        ELSE Returned(First(new), (conventions \ hit) \cup new)

deleteConvention(id) == Returned(<<>>, conventions \ Row(conventions, id))

(* partners *)
getPartners == Ordered(partners, [p \in partners |-> TextRank(p.name)], FALSE)

createPartner(partner, id) ==
    LET row == [id |-> id, name |-> partner.name[2], type |-> partner.type[2],
                createdAt |-> now]
    IN  Returned(<<row>>, partners \cup {row})

(* project partners: project_id and partner_id are plain integer columns *)
getProjectPartners(projectId) ==
    LET joined == { [project_partners |-> pp, partners |-> First(Row(partners, pp.partnerId))] :
                      pp \in { r \in projectPartners : r.projectId = projectId } }
    IN  Perms(joined)

createProjectPartner(projectPartner, id) ==
    LET actual == Set(projectPartner, "actualContribution", Str("0"))
        row == [id |-> id,
                projectId |-> projectPartner.projectId[3],
                partnerId |-> projectPartner.partnerId[3],
                year |-> projectPartner.year[3],
                plannedContribution |-> NumericIn(projectPartner.plannedContribution[2]),
                actualContribution |-> NullableIn(actual, "decimal"),
                status |-> Set(projectPartner, "status", Str("pending"))[2]]
    IN  IF row.plannedContribution = "ERR" \/ BadNullable(actual, "decimal")
        THEN Threw(projectPartners)
        ELSE Returned(<<row>>, projectPartners \cup {row})

(* convention projects *)
getConventionProjects(conventionId) ==
    LET joined == { [convention_projects |-> cp, projects |-> First(Row(projects, cp.projectId))] :
                      cp \in { r \in conventionProjects : r.conventionId = conventionId } }
    IN  Perms(joined)

createConventionProject(conventionProject, id) ==
    LET row == [id |-> id,
                conventionId |-> conventionProject.conventionId[3],
                projectId |-> conventionProject.projectId[3],
                createdAt |-> now]
    IN  Returned(<<row>>, conventionProjects \cup {row})

(* financial advances *)
getFinancialAdvances(projectId) ==
    LET rows == { a \in financialAdvances : a.projectId = projectId }
    IN  Ordered(rows, [a \in rows |-> TextRank(a.referenceDate)], TRUE)

createFinancialAdvance(financialAdvance, id) ==
    LET row == [id |-> id,
                projectId |-> financialAdvance.projectId[3],
                referenceDate |-> DateIn(financialAdvance.referenceDate[2]),
                engagement |-> NumericIn(financialAdvance.engagement[2]),
                payment |-> NumericIn(financialAdvance.payment[2]),
                createdAt |-> now]
    IN  IF "ERR" \in {row.referenceDate, row.engagement, row.payment}
        THEN Threw(financialAdvances)
        ELSE Returned(<<row>>, financialAdvances \cup {row})

(* local users *)
\* createLocalUser that stores the password as it was given.
createLocalUserPlain(user, id, salt) ==
    LET row == [id |-> id,
                username |-> user.username[2],
                password |-> <<"", 0, user.password[2]>>,
                role |-> Set(user, "role", Str("user"))[2],
                createdAt |-> now,
                updatedAt |-> now]
    IN  IF \E u \in localUsers : u.username = row.username
        THEN Threw(localUsers)
        ELSE Returned(<<row>>, localUsers \cup {row})

\* DatabaseStorage.createLocalUser
createLocalUser(user, id, salt) ==
    LET row == [id |-> id,
                username |-> user.username[2],
                password |-> bcryptHash(user.password[2], salt),
                role |-> Set(user, "role", Str("user"))[2],
                createdAt |-> now,
                updatedAt |-> now]
    IN  IF \E u \in localUsers : u.username = row.username
        THEN Threw(localUsers)
        ELSE Returned(<<row>>, localUsers \cup {row})

\* DatabaseStorage.validateLocalUser; bcrypt.compare rejects (throws) when the
\* data it is given is not a string.
validateLocalUser(username, password) ==
    LET user == First({ u \in localUsers : u.username = username[2] })
    IN  IF user = <<>> THEN Returned(<<>>, localUsers)
        ELSE IF TypeOf(password) # "string" THEN Threw(localUsers)
        ELSE IF ~bcryptCompare(password[2], user[1].password) THEN Returned(<<>>, localUsers)
        ELSE Returned(user, localUsers)

\* getLocalUsers, updateLocalUser and deleteLocalUser are called by the routes;
\* their bodies are not in the storage source at hand.
getLocalUsers == Perms(localUsers)

\* updateLocalUser that hashes the password field whenever the payload has one.
updateLocalUserRehashes(id, userData, salt) ==
    LET Upd(u) ==
          [id |-> u.id,
           username |-> Set(userData, "username", Str(u.username))[2],
           password |-> IF Has(userData, "password")
                        THEN bcryptHash(userData.password[2], salt) ELSE u.password,
           role |-> Set(userData, "role", Str(u.role))[2],
           createdAt |-> u.createdAt,
           updatedAt |-> now]
        hit == Row(localUsers, id)
        rest == localUsers \ hit
        new == { Upd(u) : u \in hit }
    IN  IF \E n \in new, u \in rest : n.username = u.username
        THEN Threw(localUsers)
        ELSE Returned(First(new), rest \cup new)

updateLocalUser(id, userData, salt) ==
    LET Upd(u) ==
          [id |-> u.id,
           username |-> Set(userData, "username", Str(u.username))[2],
           password |-> IF Truthy(userData, "password")
                        THEN bcryptHash(userData.password[2], salt) ELSE u.password,
           role |-> Set(userData, "role", Str(u.role))[2],
           createdAt |-> u.createdAt,
           updatedAt |-> now]
        hit == Row(localUsers, id)
        rest == localUsers \ hit
        new == { Upd(u) : u \in hit }
    IN  IF \E n \in new, u \in rest : n.username = u.username
        THEN Threw(localUsers)
        ELSE Returned(First(new), rest \cup new)

deleteLocalUser(id) == Returned(<<>>, localUsers \ Row(localUsers, id))

(* ----------------------------- responses ------------------------------ *)
\* res.status(..).json(..): kind tells the shape of the JSON body.
Message(m) == [kind |-> "message", message |-> m, json |-> <<>>, errors |-> {}]
Object(o) == [kind |-> "object", message |-> "", json |-> <<o>>, errors |-> {}]
Array(list) == [kind |-> "array", message |-> "", json |-> list, errors |-> {}]
Errors(m, issues) == [kind |-> "errors", message |-> m, json |-> <<>>, errors |-> issues]
Empty == [kind |-> "empty", message |-> "", json |-> <<>>, errors |-> {}]
\* res.json(x) for the x destructured from returning(): undefined gives no body
Json(result) == IF result = <<>> THEN Empty ELSE Object(result[1])

\* resp' for one request (route, session, path id, body or query): ran lists the stages of the chain that ran
\* ("session", "role", "parse", "storage"), calls the storage methods called.
Respond(route, s, id, input, status, body, ran, calls) ==
    /\ resp' = [route |-> route, sid |-> s, id |-> id, input |-> input, status |-> status,
                body |-> body, ran |-> ran, calls |-> calls]
    /\ UNCHANGED client

(* ----------------------------- middleware ----------------------------- *)
Pass(ran) == [next |-> TRUE, status |-> 200, message |-> "", ran |-> ran]
Deny(status, message, ran) ==
    [next |-> FALSE, status |-> status, message |-> message, ran |-> ran]

\* requireAuth that lets every request through.
requireAuthLax(s) == Pass(<<"session">>)

\* requireAuth
requireAuth(s) ==
    IF session[s] # <<>>
    THEN Pass(<<"session">>)
    ELSE Deny(401, "Unauthorized", <<"session">>)

\* requireRole that reads the role the user has in local_users now.
requireRoleStored(roles, s) ==
    IF session[s] = <<>>
    THEN Deny(401, "Unauthorized", <<"session">>)
    ELSE LET stored == Row(localUsers, session[s][1].id) IN
         IF stored = {}
         THEN Deny(401, "Unauthorized", <<"session">>)
         ELSE IF \A u \in stored : u.role \notin roles
              THEN Deny(403, "Insufficient permissions", <<"session", "role">>)
              ELSE Pass(<<"session", "role">>)

\* requireRole(roles)
requireRole(roles, s) ==
    IF session[s] = <<>>
    THEN Deny(401, "Unauthorized", <<"session">>)
    ELSE IF session[s][1].role \notin roles
         THEN Deny(403, "Insufficient permissions", <<"session", "role">>)
         ELSE Pass(<<"session", "role">>)

\* canWrite built with the roles of canRead.
canWriteAnyRole(s) == requireRole({"admin", "user", "superviseur"}, s)

canWrite(s) == requireRole({"admin", "user"}, s)
canManageUsers(s) == requireRole({"admin"}, s)
canRead(s) == requireRole({"admin", "user", "superviseur"}, s)

\* The middleware answered: the handler does not run.
Refused(route, s, id, input, gate) ==
    /\ ~gate.next
    /\ Respond(route, s, id, input, gate.status, Message(gate.message), gate.ran, <<>>)
    /\ UNCHANGED <<store, serial, now, session>>

\* A handler that reads: answers and changes nothing.
Answer(route, s, id, input, gate, status, body, stages, calls) ==
    /\ Respond(route, s, id, input, status, body, gate.ran \o stages, calls)
    /\ UNCHANGED <<store, serial, now, session>>

(* ----------------------------- route table ---------------------------- *)
\* app.get/post/put/delete(path, middleware, handler): the middleware each
\* route is registered with.
Guard ==
    [r \in { "GET /api/projects", "GET /api/projects/:id", "GET /api/conventions",
             "GET /api/conventions/:id", "GET /api/partners",
             "GET /api/projects/:id/financial-advances" } |-> "canRead"]
    @@ [r \in { "POST /api/projects", "PUT /api/projects/:id", "DELETE /api/projects/:id",
                "POST /api/conventions", "PUT /api/conventions/:id",
                "DELETE /api/conventions/:id", "POST /api/partners",
                "POST /api/projects/:id/financial-advances" } |-> "canWrite"]
    @@ [r \in { "GET /api/users", "POST /api/users", "PUT /api/users/:id",
                "DELETE /api/users/:id" } |-> "canManageUsers"]
    @@ [r \in { "GET /api/projects/:id/partners", "POST /api/projects/:id/partners",
                "GET /api/conventions/:id/projects", "POST /api/conventions/:id/projects" }
          |-> "requireAuth"]

\* The middleware of a route, run for the session of the request.
Chain(route, s) ==
    CASE Guard[route] = "canRead" -> canRead(s)
      [] Guard[route] = "canWrite" -> canWrite(s)
      [] Guard[route] = "canManageUsers" -> canManageUsers(s)
      [] Guard[route] = "requireAuth" -> requireAuth(s)

(* ------------------------------- auth --------------------------------- *)
\* POST /api/auth/login that drops the principal of the session when the
\* credentials are refused.
LoginDropsPrincipal(s, body) ==
    LET route == "POST /api/auth/login" IN
    IF ~Truthy(body, "username") \/ ~Truthy(body, "password")
    THEN /\ Respond(route, s, 0, body, 400,
                    Message("Username and password are required"), <<>>, <<>>)
         /\ UNCHANGED <<store, serial, now, session>>
    ELSE LET r == validateLocalUser(body.username, body.password) IN
         /\ session' = [session EXCEPT ![s] = r.result]
         /\ Respond(route, s, 0, body, IF r.result = <<>> THEN 401 ELSE 200,
                    Message("Invalid credentials"), <<"storage">>, <<"validateLocalUser">>)
         /\ UNCHANGED <<store, serial, now>>

\* POST /api/auth/login
Login(s, body) ==
    LET route == "POST /api/auth/login" IN
    IF ~Truthy(body, "username") \/ ~Truthy(body, "password")
    THEN /\ Respond(route, s, 0, body, 400,
                    Message("Username and password are required"), <<>>, <<>>)
         /\ UNCHANGED <<store, serial, now, session>>
    ELSE LET r == validateLocalUser(body.username, body.password)
             user == r.result
         IN  IF r.threw
             THEN /\ Respond(route, s, 0, body, 500, Message("Failed to login"),
                             <<"storage">>, <<"validateLocalUser">>)
                  /\ UNCHANGED <<store, serial, now, session>>
             ELSE IF user = <<>>
             THEN /\ Respond(route, s, 0, body, 401, Message("Invalid credentials"),
                             <<"storage">>, <<"validateLocalUser">>)
                  /\ UNCHANGED <<store, serial, now, session>>
             ELSE /\ session' = [session EXCEPT ![s] = user]
                  /\ Respond(route, s, 0, body, 200,
                             [kind |-> "object", message |-> "Login successful",
                              json |-> <<[id |-> user[1].id, username |-> user[1].username,
                                          role |-> user[1].role]>>,
                              errors |-> {}],
                             <<"storage">>, <<"validateLocalUser">>)
                  /\ UNCHANGED <<store, serial, now>>

\* POST /api/auth/logout that answers without destroying the session.
LogoutKeepsSession(s) ==
    /\ Respond("POST /api/auth/logout", s, 0, EmptyObject, 200, Message("Logout successful"), <<>>, <<>>)
    /\ UNCHANGED <<store, serial, now, session>>

\* POST /api/auth/logout: session.destroy()
Logout(s) ==
    /\ session' = [session EXCEPT ![s] = <<>>]
    /\ Respond("POST /api/auth/logout", s, 0, EmptyObject, 200, Message("Logout successful"), <<>>, <<>>)
    /\ UNCHANGED <<store, serial, now>>

\* GET /api/auth/user
AuthUser(s) ==
    /\ IF session[s] # <<>>
       THEN Respond("GET /api/auth/user", s, 0, EmptyObject, 200, Object(session[s][1]), <<"session">>, <<>>)
       ELSE Respond("GET /api/auth/user", s, 0, EmptyObject, 401, Message("Unauthorized"), <<"session">>, <<>>)
    /\ UNCHANGED <<store, serial, now, session>>

\* The text of a query parameter that may be absent.
Query(query, k) == IF Has(query, k) THEN query[k][2] ELSE ""
\* nextval of a table's id sequence: the insert takes it even when it fails.
NextVal(table) == serial[table] + 1
Take(table) == serial' = [serial EXCEPT ![table] = @ + 1]
\* The INSERT statements executed so far (each takes one sequence value).
Inserted ==
    serial.localUsers - SeedUsers + serial.projects + serial.conventions + serial.partners
    + serial.projectPartners + serial.conventionProjects + serial.financialAdvances

(* ----------------------------- projects ------------------------------- *)
\* GET /api/projects
GetProjects(s, query) ==
    LET route == "GET /api/projects" gate == Chain(route, s) IN
    \/ Refused(route, s, 0, query, gate)
    \/ /\ gate.next
       /\ \E list \in getProjects(Query(query, "search"), Query(query, "sortBy"),
                                  Query(query, "sortOrder")) :
            Answer(route, s, 0, query, gate, 200, Array(list), <<"storage">>, <<"getProjects">>)

\* GET /api/projects/:id
GetProject(s, id) ==
    LET route == "GET /api/projects/:id" gate == Chain(route, s) IN
    \/ Refused(route, s, id, EmptyObject, gate)
    \/ /\ gate.next
       /\ LET project == getProject(id) IN
          IF project = <<>>
          THEN Answer(route, s, id, EmptyObject, gate, 404, Message("Project not found"),
                      <<"storage">>, <<"getProject">>)
          ELSE Answer(route, s, id, EmptyObject, gate, 200, Json(project), <<"storage">>, <<"getProject">>)

\* POST /api/projects
PostProject(s, body) ==
    LET route == "POST /api/projects" gate == Chain(route, s)
        issues == ZodIssues(insertProjectSchema, body, FALSE) IN
    \/ Refused(route, s, 0, body, gate)
    \/ /\ gate.next
       /\ issues # {}
       /\ Answer(route, s, 0, body, gate, 400, Errors("Invalid project data", issues),
                 <<"parse">>, <<>>)
    \/ /\ gate.next
       /\ issues = {}
       /\ Inserted < MaxInserts
       /\ LET r == createProject(ZodData(insertProjectSchema, body), NextVal("projects")) IN
          /\ projects' = r.table
          /\ Take("projects")
          /\ IF r.threw
             THEN Respond(route, s, 0, body, 500, Message("Failed to create project"),
                          gate.ran \o <<"parse", "storage">>, <<"createProject">>)
             ELSE Respond(route, s, 0, body, 201, Json(r.result),
                          gate.ran \o <<"parse", "storage">>, <<"createProject">>)
       /\ UNCHANGED <<localUsers, conventions, partners, projectPartners,
                      conventionProjects, financialAdvances, now, session>>

\* PUT /api/projects/:id with the target looked up before the middleware runs.
PutProjectLookupFirst(s, id, body) ==
    LET route == "PUT /api/projects/:id" gate == Chain(route, s) IN
    /\ IF getProject(id) = <<>>
       THEN Respond(route, s, id, body, 404, Message("Project not found"),
                    <<"storage">>, <<"getProject">>)
       ELSE Respond(route, s, id, body, gate.status, Message(gate.message), gate.ran, <<>>)
    /\ UNCHANGED <<store, serial, now, session>>

\* PUT /api/projects/:id
PutProject(s, id, body) ==
    LET route == "PUT /api/projects/:id" gate == Chain(route, s)
        issues == ZodIssues(insertProjectSchema, body, TRUE) IN
    \/ Refused(route, s, id, body, gate)
    \/ /\ gate.next
       /\ issues # {}
       /\ Answer(route, s, id, body, gate, 400, Errors("Invalid project data", issues),
                 <<"parse">>, <<>>)
    \/ /\ gate.next
       /\ issues = {}
       /\ LET r == updateProject(id, ZodData(insertProjectSchema, body)) IN
          /\ projects' = r.table
          /\ IF r.threw
             THEN Respond(route, s, id, body, 500, Message("Failed to update project"),
                          gate.ran \o <<"parse", "storage">>, <<"updateProject">>)
             ELSE Respond(route, s, id, body, 200, Json(r.result),
                          gate.ran \o <<"parse", "storage">>, <<"updateProject">>)
       /\ UNCHANGED <<localUsers, conventions, partners, projectPartners,
                      conventionProjects, financialAdvances, serial, now, session>>

\* DELETE /api/projects/:id with the delete issued before the middleware answers.
DeleteProjectThenCheck(s, id) ==
    LET route == "DELETE /api/projects/:id" gate == Chain(route, s) IN
    /\ projects' = deleteProject(id).table
    /\ IF gate.next
       THEN Respond(route, s, id, EmptyObject, 204, Empty, gate.ran \o <<"storage">>,
                    <<"deleteProject">>)
       ELSE Respond(route, s, id, EmptyObject, gate.status, Message(gate.message),
                    gate.ran, <<>>)
    /\ UNCHANGED <<localUsers, conventions, partners, projectPartners,
                   conventionProjects, financialAdvances, serial, now, session>>

\* DELETE /api/projects/:id on tables whose project_id columns reference
\* projects with ON DELETE CASCADE.
DeleteProjectCascade(s, id) ==
    LET route == "DELETE /api/projects/:id" gate == Chain(route, s) IN
    \/ Refused(route, s, id, EmptyObject, gate)
    \/ /\ gate.next
       /\ projects' = deleteProject(id).table
       /\ projectPartners' = { r \in projectPartners : r.projectId # id }
       /\ conventionProjects' = { r \in conventionProjects : r.projectId # id }
       /\ financialAdvances' = { r \in financialAdvances : r.projectId # id }
       /\ Respond(route, s, id, EmptyObject, 204, Empty, gate.ran \o <<"storage">>, <<"deleteProject">>)
       /\ UNCHANGED <<localUsers, conventions, partners, serial, now, session>>

\* DELETE /api/projects/:id
DeleteProject(s, id) ==
    LET route == "DELETE /api/projects/:id" gate == Chain(route, s) IN
    \/ Refused(route, s, id, EmptyObject, gate)
    \/ /\ gate.next
       /\ projects' = deleteProject(id).table
       /\ Respond(route, s, id, EmptyObject, 204, Empty, gate.ran \o <<"storage">>, <<"deleteProject">>)
       /\ UNCHANGED <<localUsers, conventions, partners, projectPartners,
                      conventionProjects, financialAdvances, serial, now, session>>

(* ---------------------------- conventions ----------------------------- *)
\* GET /api/conventions
GetConventions(s) ==
    LET route == "GET /api/conventions" gate == Chain(route, s) IN
    \/ Refused(route, s, 0, EmptyObject, gate)
    \/ /\ gate.next
       /\ \E list \in getConventions :
            Answer(route, s, 0, EmptyObject, gate, 200, Array(list), <<"storage">>, <<"getConventions">>)

\* GET /api/conventions/:id
GetConvention(s, id) ==
    LET route == "GET /api/conventions/:id" gate == Chain(route, s) IN
    \/ Refused(route, s, id, EmptyObject, gate)
    \/ /\ gate.next
       /\ LET convention == getConvention(id) IN
          IF convention = <<>>
          THEN Answer(route, s, id, EmptyObject, gate, 404, Message("Convention not found"),
                      <<"storage">>, <<"getConvention">>)
          ELSE Answer(route, s, id, EmptyObject, gate, 200, Json(convention),
                      <<"storage">>, <<"getConvention">>)

\* POST /api/conventions
PostConvention(s, body) ==
    LET route == "POST /api/conventions" gate == Chain(route, s)
        issues == ZodIssues(insertConventionSchema, body, FALSE) IN
    \/ Refused(route, s, 0, body, gate)
    \/ /\ gate.next
       /\ issues # {}
       /\ Answer(route, s, 0, body, gate, 400, Errors("Invalid convention data", issues),
                 <<"parse">>, <<>>)
    \/ /\ gate.next
       /\ issues = {}
       /\ Inserted < MaxInserts
       /\ LET r == createConvention(ZodData(insertConventionSchema, body),
                                    NextVal("conventions")) IN
          /\ conventions' = r.table
          /\ Take("conventions")
          /\ IF r.threw
             THEN Respond(route, s, 0, body, 500, Message("Failed to create convention"),
                          gate.ran \o <<"parse", "storage">>, <<"createConvention">>)
             ELSE Respond(route, s, 0, body, 201, Json(r.result),
                          gate.ran \o <<"parse", "storage">>, <<"createConvention">>)
       /\ UNCHANGED <<localUsers, projects, partners, projectPartners,
                      conventionProjects, financialAdvances, now, session>>

\* PUT /api/conventions/:id that hands the body to the storage without parsing it.
PutConventionUnparsed(s, id, body) ==
    LET route == "PUT /api/conventions/:id" gate == Chain(route, s) IN
    \/ Refused(route, s, id, body, gate)
    \/ /\ gate.next
       /\ LET r == updateConvention(id, ZodData(insertConventionSchema, body)) IN
          /\ conventions' = r.table
          /\ IF r.threw
             THEN Respond(route, s, id, body, 500, Message("Failed to update convention"),
                          gate.ran \o <<"storage">>, <<"updateConvention">>)
             ELSE Respond(route, s, id, body, 200, Json(r.result),
                          gate.ran \o <<"storage">>, <<"updateConvention">>)
       /\ UNCHANGED <<localUsers, projects, partners, projectPartners,
                      conventionProjects, financialAdvances, serial, now, session>>

\* PUT /api/conventions/:id
PutConvention(s, id, body) ==
    LET route == "PUT /api/conventions/:id" gate == Chain(route, s)
        issues == ZodIssues(insertConventionSchema, body, TRUE) IN
    \/ Refused(route, s, id, body, gate)
    \/ /\ gate.next
       /\ issues # {}
       /\ Answer(route, s, id, body, gate, 400, Errors("Invalid convention data", issues),
                 <<"parse">>, <<>>)
    \/ /\ gate.next
       /\ issues = {}
       /\ LET r == updateConvention(id, ZodData(insertConventionSchema, body)) IN
          /\ conventions' = r.table
          /\ IF r.threw
             THEN Respond(route, s, id, body, 500, Message("Failed to update convention"),
                          gate.ran \o <<"parse", "storage">>, <<"updateConvention">>)
             ELSE Respond(route, s, id, body, 200, Json(r.result),
                          gate.ran \o <<"parse", "storage">>, <<"updateConvention">>)
       /\ UNCHANGED <<localUsers, projects, partners, projectPartners,
                      conventionProjects, financialAdvances, serial, now, session>>

\* DELETE /api/conventions/:id
DeleteConvention(s, id) ==
    LET route == "DELETE /api/conventions/:id" gate == Chain(route, s) IN
    \/ Refused(route, s, id, EmptyObject, gate)
    \/ /\ gate.next
       /\ conventions' = deleteConvention(id).table
       /\ Respond(route, s, id, EmptyObject, 204, Empty, gate.ran \o <<"storage">>, <<"deleteConvention">>)
       /\ UNCHANGED <<localUsers, projects, partners, projectPartners,
                      conventionProjects, financialAdvances, serial, now, session>>

(* ------------------------------ partners ------------------------------ *)
\* GET /api/partners
GetPartners(s) ==
    LET route == "GET /api/partners" gate == Chain(route, s) IN
    \/ Refused(route, s, 0, EmptyObject, gate)
    \/ /\ gate.next
       /\ \E list \in getPartners :
            Answer(route, s, 0, EmptyObject, gate, 200, Array(list), <<"storage">>, <<"getPartners">>)

\* POST /api/partners
PostPartner(s, body) ==
    LET route == "POST /api/partners" gate == Chain(route, s)
        issues == ZodIssues(insertPartnerSchema, body, FALSE) IN
    \/ Refused(route, s, 0, body, gate)
    \/ /\ gate.next
       /\ issues # {}
       /\ Answer(route, s, 0, body, gate, 400, Errors("Invalid partner data", issues),
                 <<"parse">>, <<>>)
    \/ /\ gate.next
       /\ issues = {}
       /\ Inserted < MaxInserts
       /\ LET r == createPartner(ZodData(insertPartnerSchema, body), NextVal("partners")) IN
          /\ partners' = r.table
          /\ Take("partners")
          /\ Respond(route, s, 0, body, 201, Json(r.result),
                     gate.ran \o <<"parse", "storage">>, <<"createPartner">>)
       /\ UNCHANGED <<localUsers, projects, conventions, projectPartners,
                      conventionProjects, financialAdvances, now, session>>

(* -------------------------- project partners -------------------------- *)
\* The joined row the handler returns: { ...row.project_partners, partner: row.partners! }
WithPartner(row) == [row |-> row.project_partners, partner |-> row.partners]
WithProject(row) == [row |-> row.convention_projects, project |-> row.projects]

\* GET /api/projects/:id/partners
GetProjectPartners(s, id) ==
    LET route == "GET /api/projects/:id/partners" gate == Chain(route, s) IN
    \/ Refused(route, s, id, EmptyObject, gate)
    \/ /\ gate.next
       /\ \E rows \in getProjectPartners(id) :
            Answer(route, s, id, EmptyObject, gate, 200, Array([i \in DOMAIN rows |-> WithPartner(rows[i])]),
                   <<"storage">>, <<"getProjectPartners">>)

\* POST /api/projects/:id/partners
PostProjectPartner(s, id, body) ==
    LET route == "POST /api/projects/:id/partners" gate == Chain(route, s)
        input == Spread(body, "projectId", Num(id))
        issues == ZodIssues(insertProjectPartnerSchema, input, FALSE) IN
    \/ Refused(route, s, id, body, gate)
    \/ /\ gate.next
       /\ issues # {}
       /\ Answer(route, s, id, body, gate, 400, Errors("Invalid project partner data", issues),
                 <<"parse">>, <<>>)
    \/ /\ gate.next
       /\ issues = {}
       /\ Inserted < MaxInserts
       /\ LET r == createProjectPartner(ZodData(insertProjectPartnerSchema, input),
                                        NextVal("projectPartners")) IN
          /\ projectPartners' = r.table
          /\ Take("projectPartners")
          /\ IF r.threw
             THEN Respond(route, s, id, body, 500, Message("Failed to create project partner"),
                          gate.ran \o <<"parse", "storage">>, <<"createProjectPartner">>)
             ELSE Respond(route, s, id, body, 201, Json(r.result),
                          gate.ran \o <<"parse", "storage">>, <<"createProjectPartner">>)
       /\ UNCHANGED <<localUsers, projects, conventions, partners,
                      conventionProjects, financialAdvances, now, session>>

(* ------------------------- convention projects ------------------------ *)
\* GET /api/conventions/:id/projects
GetConventionProjects(s, id) ==
    LET route == "GET /api/conventions/:id/projects" gate == Chain(route, s) IN
    \/ Refused(route, s, id, EmptyObject, gate)
    \/ /\ gate.next
       /\ \E rows \in getConventionProjects(id) :
            Answer(route, s, id, EmptyObject, gate, 200, Array([i \in DOMAIN rows |-> WithProject(rows[i])]),
                   <<"storage">>, <<"getConventionProjects">>)

\* POST /api/conventions/:id/projects
PostConventionProject(s, id, body) ==
    LET route == "POST /api/conventions/:id/projects" gate == Chain(route, s)
        input == Spread(body, "conventionId", Num(id))
        issues == ZodIssues(insertConventionProjectSchema, input, FALSE) IN
    \/ Refused(route, s, id, body, gate)
    \/ /\ gate.next
       /\ issues # {}
       /\ Answer(route, s, id, body, gate, 400, Errors("Invalid convention project data", issues),
                 <<"parse">>, <<>>)
    \/ /\ gate.next
       /\ issues = {}
       /\ Inserted < MaxInserts
       /\ LET r == createConventionProject(ZodData(insertConventionProjectSchema, input),
                                           NextVal("conventionProjects")) IN
          /\ conventionProjects' = r.table
          /\ Take("conventionProjects")
          /\ Respond(route, s, id, body, 201, Json(r.result),
                     gate.ran \o <<"parse", "storage">>, <<"createConventionProject">>)
       /\ UNCHANGED <<localUsers, projects, conventions, partners,
                      projectPartners, financialAdvances, now, session>>

(* ------------------------- financial advances ------------------------- *)
\* GET /api/projects/:id/financial-advances
GetFinancialAdvances(s, id) ==
    LET route == "GET /api/projects/:id/financial-advances" gate == Chain(route, s) IN
    \/ Refused(route, s, id, EmptyObject, gate)
    \/ /\ gate.next
       /\ \E list \in getFinancialAdvances(id) :
            Answer(route, s, id, EmptyObject, gate, 200, Array(list),
                   <<"storage">>, <<"getFinancialAdvances">>)

\* POST /api/projects/:id/financial-advances
PostFinancialAdvance(s, id, body) ==
    LET route == "POST /api/projects/:id/financial-advances" gate == Chain(route, s)
        input == Spread(body, "projectId", Num(id))
        issues == ZodIssues(insertFinancialAdvanceSchema, input, FALSE) IN
    \/ Refused(route, s, id, body, gate)
    \/ /\ gate.next
       /\ issues # {}
       /\ Answer(route, s, id, body, gate, 400, Errors("Invalid financial advance data", issues),
                 <<"parse">>, <<>>)
    \/ /\ gate.next
       /\ issues = {}
       /\ Inserted < MaxInserts
       /\ LET r == createFinancialAdvance(ZodData(insertFinancialAdvanceSchema, input),
                                          NextVal("financialAdvances")) IN
          /\ financialAdvances' = r.table
          /\ Take("financialAdvances")
          /\ IF r.threw
             THEN Respond(route, s, id, body, 500, Message("Failed to create financial advance"),
                          gate.ran \o <<"parse", "storage">>, <<"createFinancialAdvance">>)
             ELSE Respond(route, s, id, body, 201, Json(r.result),
                          gate.ran \o <<"parse", "storage">>, <<"createFinancialAdvance">>)
       /\ UNCHANGED <<localUsers, projects, conventions, partners,
                      projectPartners, conventionProjects, now, session>>

(* -------------------------------- users ------------------------------- *)
\* The object the users routes answer with for a user row.
UserJson(u) == [id |-> u.id, username |-> u.username, role |-> u.role,
                createdAt |-> u.createdAt]

\* GET /api/users
GetUsers(s) ==
    LET route == "GET /api/users" gate == Chain(route, s) IN
    \/ Refused(route, s, 0, EmptyObject, gate)
    \/ /\ gate.next
       /\ \E users \in getLocalUsers :
            Answer(route, s, 0, EmptyObject, gate, 200, Array([i \in DOMAIN users |-> UserJson(users[i])]),
                   <<"storage">>, <<"getLocalUsers">>)

\* POST /api/users
PostUser(s, body, salt) ==
    LET route == "POST /api/users" gate == Chain(route, s)
        issues == ZodIssues(insertLocalUserSchema, body, FALSE) IN
    \/ Refused(route, s, 0, body, gate)
    \/ /\ gate.next
       /\ issues # {}
       /\ Answer(route, s, 0, body, gate, 400, Errors("Invalid user data", issues),
                 <<"parse">>, <<>>)
    \/ /\ gate.next
       /\ issues = {}
       /\ Inserted < MaxInserts
       /\ LET r == createLocalUser(ZodData(insertLocalUserSchema, body),
                                   NextVal("localUsers"), salt) IN
          /\ localUsers' = r.table
          /\ Take("localUsers")
          /\ IF r.threw
             THEN Respond(route, s, 0, body, 500, Message("Failed to create user"),
                          gate.ran \o <<"parse", "storage">>, <<"createLocalUser">>)
             ELSE Respond(route, s, 0, body, 201, Object(UserJson(r.result[1])),
                          gate.ran \o <<"parse", "storage">>, <<"createLocalUser">>)
       /\ UNCHANGED <<projects, conventions, partners, projectPartners,
                      conventionProjects, financialAdvances, now, session>>

\* PUT /api/users/:id (user.id of an undefined user throws: 500)
PutUser(s, id, body, salt) ==
    LET route == "PUT /api/users/:id" gate == Chain(route, s)
        issues == ZodIssues(insertLocalUserSchema, body, TRUE) IN
    \/ Refused(route, s, id, body, gate)
    \/ /\ gate.next
       /\ issues # {}
       /\ Answer(route, s, id, body, gate, 400, Errors("Invalid user data", issues),
                 <<"parse">>, <<>>)
    \/ /\ gate.next
       /\ issues = {}
       /\ LET r == updateLocalUser(id, ZodData(insertLocalUserSchema, body), salt) IN
          /\ localUsers' = r.table
          /\ IF r.threw \/ r.result = <<>>
             THEN Respond(route, s, id, body, 500, Message("Failed to update user"),
                          gate.ran \o <<"parse", "storage">>, <<"updateLocalUser">>)
             ELSE Respond(route, s, id, body, 200, Object(UserJson(r.result[1])),
                          gate.ran \o <<"parse", "storage">>, <<"updateLocalUser">>)
       /\ UNCHANGED <<projects, conventions, partners, projectPartners,
                      conventionProjects, financialAdvances, serial, now, session>>

\* DELETE /api/users/:id that answers without deleting.
DeleteUserKeepsRow(s, id) ==
    LET route == "DELETE /api/users/:id" gate == Chain(route, s) IN
    \/ Refused(route, s, id, EmptyObject, gate)
    \/ /\ gate.next
       /\ Respond(route, s, id, EmptyObject, 204, Empty, gate.ran \o <<"storage">>, <<"deleteLocalUser">>)
       /\ UNCHANGED <<store, serial, now, session>>

\* DELETE /api/users/:id
DeleteUser(s, id) ==
    LET route == "DELETE /api/users/:id" gate == Chain(route, s) IN
    \/ Refused(route, s, id, EmptyObject, gate)
    \/ /\ gate.next
       /\ localUsers' = deleteLocalUser(id).table
       /\ Respond(route, s, id, EmptyObject, 204, Empty, gate.ran \o <<"storage">>, <<"deleteLocalUser">>)
       /\ UNCHANGED <<projects, conventions, partners, projectPartners,
                      conventionProjects, financialAdvances, serial, now, session>>

\* Time passes on the server clock.
Tick ==
    /\ now < MaxTime
    /\ now' = now + 1
    /\ UNCHANGED <<store, serial, session, resp, client>>

(* ------------------------------ the client ---------------------------- *)
MaxRequests == 3    \* requests one mounted modal may issue in a run
\* handleFileSelect refuses a file above 10MB
MaxFileSize == 10 * 1024 * 1024

\* The page before anybody is signed in: Home's and the modals' useState
\* defaults.  modal is "none", "convention" or "project"; record is the
\* convention / project prop of the mounted modal; requests lists what the
\* modal mounted last has sent, with the answer each request got.
Landing ==
    [user |-> <<>>, activeTab |-> "projects", modal |-> "none", record |-> <<>>,
     selectedFile |-> <<>>, isUploading |-> FALSE, isSubmitting |-> FALSE,
     mutation |-> "idle", data |-> EmptyObject, requests |-> <<>>]

\* user?.role
Role(user) == IF user = <<>> THEN "" ELSE user[1].role

\* a control of the page: on names the component that renders it, id the
\* row it stands in (0 outside a table)
Control(on, name, id) == [on |-> on, control |-> name, id |-> id]

\* Layout that renders the users tab for every role.
LayoutTabsAnyRole(user) == {"projects", "conventions", "users"}

\* Layout: the tabs of the navigation bar
LayoutTabs(user) ==
    {"projects", "conventions"} \cup (IF Role(user) = "admin" THEN {"users"} ELSE {})

\* Home: the page mounted under the active tab
Home(activeTab) == IF activeTab = "projects" THEN "Projects" ELSE "Conventions"

\* Conventions that renders the add and edit buttons for every role.
ConventionsControlsAnyRole(user, rows) ==
    { Control("Conventions", "add", 0) }
    \cup { Control("Conventions", name, c.id) :
             name \in {"projects", "details", "download", "edit"}, c \in rows }

\* Conventions: the buttons of the page, for the rows GET /api/conventions gave
ConventionsControls(user, rows) ==
    (IF Role(user) = "admin" \/ Role(user) = "user"
     THEN { Control("Conventions", "add", 0) } ELSE {})
    \cup { Control("Conventions", name, c.id) :
             name \in {"projects", "details", "download"}, c \in rows }
    \cup (IF Role(user) = "admin" \/ Role(user) = "user"
          THEN { Control("Conventions", "edit", c.id) : c \in rows } ELSE {})

\* Projects: the buttons of the page, for the rows GET /api/projects gave
ProjectsControls(rows) ==
    { Control("Projects", "new", 0) }
    \cup { Control("Projects", name, p.id) : name \in {"details", "edit"}, p \in rows }

\* What is rendered: the Layout around the page of the active tab.
Offered(c) ==
    { Control("Layout", "logout", 0) }
    \cup { Control("Layout", tab, 0) : tab \in LayoutTabs(c.user) }
    \cup (IF Home(c.activeTab) = "Projects"
          THEN ProjectsControls(projects)
          ELSE ConventionsControls(c.user, conventions))

\* The routes a control can send a request to: its onClick handler, the
\* queries of what it mounts, the mutations of the modal it opens.  The new
\* project button has no handler; the edit button of a project, and the details, projects and
\* download buttons of a convention, show a toast.
Reaches(o) ==
    CASE o.on = "Layout" /\ o.control = "logout" -> {"POST /api/auth/logout"}
      [] o.on = "Layout" /\ o.control # "logout" ->
           IF Home(o.control) = "Projects" THEN {"GET /api/projects"}
           ELSE {"GET /api/conventions"}
      [] o.on = "Conventions" /\ o.control = "add" -> {"POST /api/conventions"}
      [] o.on = "Conventions" /\ o.control = "edit" -> {"PUT /api/conventions/:id"}
      [] o.on = "Projects" /\ o.control = "details" ->
           {"GET /api/projects/:id/partners", "GET /api/projects/:id/financial-advances"}
      [] OTHER -> {}

\* Home mounts: useAuth() resolves to what GET /api/auth/user answers with
\* for the session of the browser, and every component starts from its defaults.
HomeMount(s) ==
    /\ client' = [Landing EXCEPT !.user = session[s]]
    /\ UNCHANGED <<store, serial, now, session, resp>>

\* Layout: setActiveTab(tab), clicked on a tab that is rendered
SetActiveTab(tab) ==
    /\ client.modal = "none"
    /\ Control("Layout", tab, 0) \in Offered(client)
    /\ client' = [client EXCEPT !.activeTab = tab]
    /\ UNCHANGED <<store, serial, now, session, resp>>

\* A modal mounts: its useState defaults.
Mounted(c, modal, record) ==
    [c EXCEPT !.modal = modal, !.record = record, !.selectedFile = <<>>,
              !.isUploading = FALSE, !.isSubmitting = FALSE, !.mutation = "idle",
              !.data = EmptyObject, !.requests = <<>>]

\* onClose: the page unmounts the modal.  What the modal has sent stays sent.
Closed(c) ==
    [c EXCEPT !.modal = "none", !.record = <<>>, !.selectedFile = <<>>,
              !.isUploading = FALSE, !.isSubmitting = FALSE, !.mutation = "idle",
              !.data = EmptyObject]

\* Conventions: "Ajouter une Convention"
ConventionsAdd ==
    /\ client.modal = "none"
    /\ Control("Conventions", "add", 0) \in Offered(client)
    /\ client' = Mounted(client, "convention", <<>>)
    /\ UNCHANGED <<store, serial, now, session, resp>>

\* Conventions: the edit button of a row
ConventionsEdit(convention) ==
    /\ client.modal = "none"
    /\ Control("Conventions", "edit", convention.id) \in Offered(client)
    /\ client' = Mounted(client, "convention", <<convention>>)
    /\ UNCHANGED <<store, serial, now, session, resp>>

\* The cancel button or the dialog's close: onClose()
ModalClose ==
    /\ client.modal # "none"
    /\ client' = Closed(client)
    /\ UNCHANGED <<store, serial, now, session, resp>>

\* A request as the modal keeps track of it: status 0 until it is answered,
\* file the file it uploads or has uploaded for it, url the URL an upload answered with.
Request(route, id, body, file) ==
    [route |-> route, id |-> id, body |-> body, file |-> file, status |-> 0, url |-> ""]
Last(requests) == requests[Len(requests)]
Settled(requests, status, url) ==
    [requests EXCEPT ![Len(requests)] = [@ EXCEPT !.status = status, !.url = url]]
InFlight(c, routes) ==
    /\ c.mutation = "pending"
    /\ c.requests # <<>>
    /\ Last(c.requests).route \in routes
    /\ Last(c.requests).status = 0

\* v || ""
OrEmpty(v) == IF v = Null \/ v = Str("") \/ v = Num(0) THEN Str("") ELSE v

\* ConventionModal: handleFileSelect
handleFileSelect(file) ==
    /\ client.modal = "convention"
    /\ client' = IF file.size > MaxFileSize \/ file.type # "application/pdf"
                 THEN client
                 ELSE [client EXCEPT !.selectedFile = <<file>>]
    /\ UNCHANGED <<store, serial, now, session, resp>>

\* ConventionModal: the request of createMutation / updateMutation, once documentUrl is known
ConventionRequest(c, documentUrl, file) ==
    IF c.record = <<>>
    THEN Request("POST /api/conventions", 0, Spread(c.data, "documentUrl", documentUrl), file)
    ELSE Request("PUT /api/conventions/:id", c.record[1].id,
                 Spread(c.data, "documentUrl", documentUrl), file)

\* ConventionModal: the submit button, with the values of a valid form.
\* mutationFn runs up to its first await.
ConventionModalSubmit(data) ==
    /\ client.modal = "convention"
    /\ ~(client.mutation = "pending" \/ client.isUploading)
    /\ Len(client.requests) + 2 <= MaxRequests
    /\ LET c == [client EXCEPT !.data = data, !.mutation = "pending"]
           documentUrl == IF c.record = <<>> THEN Str("") ELSE OrEmpty(c.record[1].documentUrl)
       IN  client' =
             IF c.selectedFile # <<>>
             THEN [c EXCEPT !.isUploading = TRUE,
                            !.requests = Append(@, Request("POST /api/upload", 0, EmptyObject,
                                                           c.selectedFile))]
             ELSE [c EXCEPT !.requests = Append(@, ConventionRequest(c, documentUrl, <<>>))]
    /\ UNCHANGED <<store, serial, now, session, resp>>

\* ConventionModal where a failed upload does not stop the mutation.
UploadSettlesAnyway(status, url) ==
    /\ client.modal = "convention"
    /\ InFlight(client, {"POST /api/upload"})
    /\ LET c == [client EXCEPT !.requests = Settled(@, status, url), !.isUploading = FALSE]
       IN  client' = [c EXCEPT !.requests =
                        Append(@, ConventionRequest(c, Str(url), Last(c.requests).file))]
    /\ UNCHANGED <<store, serial, now, session, resp>>

\* ConventionModal: uploadFile is answered, mutationFn runs on
UploadSettles(status, url) ==
    /\ client.modal = "convention"
    /\ InFlight(client, {"POST /api/upload"})
    /\ LET c == [client EXCEPT !.requests = Settled(@, status, url)]
       IN  client' =
             IF status = 200
             THEN [c EXCEPT !.isUploading = FALSE,
                            !.requests =
                              Append(@, ConventionRequest(c, Str(url), Last(c.requests).file))]
             ELSE [c EXCEPT !.mutation = "error"]
    /\ UNCHANGED <<store, serial, now, session, resp>>

\* ConventionModal: the convention request is answered: onSuccess closes the
\* modal, onError leaves for the login page on 401 and shows a toast otherwise
ConventionRequestSettles(status) ==
    /\ client.modal = "convention"
    /\ InFlight(client, {"POST /api/conventions", "PUT /api/conventions/:id"})
    /\ LET c == [client EXCEPT !.requests = Settled(@, status, "")]
       IN  client' =
             CASE status \in {200, 201} -> Closed(c)
               [] status = 401 -> [Landing EXCEPT !.requests = c.requests]
               [] OTHER -> [c EXCEPT !.mutation = "error"]
    /\ UNCHANGED <<store, serial, now, session, resp>>

\* The page of the projects mounts a ProjectModal for a new project or for one of the rows.
ProjectModalMount(project) ==
    /\ client.modal = "none"
    /\ client' = Mounted(client, "project", project)
    /\ UNCHANGED <<store, serial, now, session, resp>>

\* ProjectModal: disabled of the submit button
ProjectModalDisabled(c) == c.isSubmitting \/ c.mutation = "pending"

\* ProjectModal: onSubmit, with the values of a valid form
ProjectModalSubmit(data) ==
    /\ client.modal = "project"
    /\ ~ProjectModalDisabled(client)
    /\ Len(client.requests) < MaxRequests
    /\ client' = [client EXCEPT
                    !.isSubmitting = TRUE, !.mutation = "pending", !.data = data,
                    !.requests =
                      Append(@, IF client.record = <<>>
                                THEN Request("POST /api/projects", 0, data, <<>>)
                                ELSE Request("PUT /api/projects/:id", client.record[1].id,
                                             data, <<>>))]
    /\ UNCHANGED <<store, serial, now, session, resp>>

\* ProjectModal whose onError enables the submit button again.
ProjectRequestSettlesResets(status) ==
    /\ client.modal = "project"
    /\ InFlight(client, {"POST /api/projects", "PUT /api/projects/:id"})
    /\ LET c == [client EXCEPT !.requests = Settled(@, status, "")]
       IN  client' = IF status \in {200, 201} THEN Closed(c)
                     ELSE [c EXCEPT !.mutation = "error", !.isSubmitting = FALSE]
    /\ UNCHANGED <<store, serial, now, session, resp>>

\* ProjectModal: the request is answered: onSuccess closes the modal, onError shows a toast
ProjectRequestSettles(status) ==
    /\ client.modal = "project"
    /\ InFlight(client, {"POST /api/projects", "PUT /api/projects/:id"})
    /\ LET c == [client EXCEPT !.requests = Settled(@, status, "")]
       IN  client' = IF status \in {200, 201} THEN Closed(c)
                     ELSE [c EXCEPT !.mutation = "error"]
    /\ UNCHANGED <<store, serial, now, session, resp>>

(* ------------------------------- inputs ------------------------------- *)
Sessions == {"s1"}
Salts == 1..NumSalts
\* Path ids: the ids the sequences can hand out.
Ids == 1..MaxInserts
UserIds == SeedUsers..(SeedUsers + 1)

Credentials(u, p) == [username |-> Str(u), password |-> Str(p)]
LoginBodies ==
    { Credentials("admin", "admin123"), Credentials("user1", "admin123"),
      Credentials("superviseur1", "admin123"), Credentials("admin", "wrong"),
      [username |-> Str("admin")], [username |-> Str("admin"), password |-> Num(1)] }

FullProject(identifier, title, budget) ==
    [identifier |-> Str(identifier), title |-> Str(title), axis |-> Str("Axe 1"),
     domain |-> Str("Irrigation"), region |-> Str("Souss-Massa"),
     province |-> Str("Taroudant"), commune |-> Str("Aoulouz"), budget |-> Str(budget)]
ProjectBodies ==
    { FullProject("PDR-001", "Piste rurale", "100"),
      [identifier |-> Str("PDR-001"), budget |-> Num(100)] }
ProjectPatches == { [title |-> Str("Piste")], [budget |-> Num(100)] }
ProjectQueries == { EmptyObject, [sortBy |-> Str("budget"), sortOrder |-> Str("desc")] }

ConventionBodies ==
    { [title |-> Str("Convention cadre"), status |-> Str("signed"),
       programme |-> Str("PDR Souss-Massa"), dateVisa |-> Str("2025-07-11")],
      [title |-> Str("Convention cadre")] }
ConventionPatches == { [status |-> Str("visa")], [dateVisa |-> Num(2025)] }

PartnerBodies == { [name |-> Str("Barrage"), type |-> Str("public")], [name |-> Str("Barrage")] }
ProjectPartnerBodies ==
    { [partnerId |-> Num(1), year |-> Num(2025), plannedContribution |-> Str("100")],
      [partnerId |-> Num(1)] }
ConventionProjectBodies == { [projectId |-> Num(1)], EmptyObject }
FinancialAdvanceBodies ==
    { [referenceDate |-> Str("2025-07-14"), engagement |-> Str("100"), payment |-> Str("0")],
      [referenceDate |-> Str("2025-07-14")] }
UserBodies ==
    { [username |-> Str("user2"), password |-> Str("p1"), role |-> Str("superviseur")],
      [username |-> Str("user2")] }
UserPatches == { [role |-> Str("user")], [role |-> Num(1)] }

(* ----------------------------- the machine ---------------------------- *)
SeedUser(id, username, role) ==
    [id |-> id, username |-> username, password |-> bcryptHash("admin123", 1),
     role |-> role, createdAt |-> 0, updatedAt |-> 0]

\* A project created at time 0.
SeedProject == ProjectRow(FullProject("PDR-001", "Piste rurale", "100"), 1, 0)

\* The deployment with its three accounts and one project.
Init ==
    /\ localUsers = { SeedUser(1, "admin", "admin"), SeedUser(2, "user1", "user"),
                      SeedUser(3, "superviseur1", "superviseur") }
    /\ projects = { SeedProject }
    /\ conventions = {}
    /\ partners = {}
    /\ projectPartners = {}
    /\ conventionProjects = {}
    /\ financialAdvances = {}
    /\ serial = [localUsers |-> SeedUsers, projects |-> 1, conventions |-> 0, partners |-> 0,
                 projectPartners |-> 0, conventionProjects |-> 0, financialAdvances |-> 0]
    /\ now = 0
    /\ session = [s \in Sessions |-> <<>>]
    /\ resp = [route |-> "", sid |-> "", id |-> 0, input |-> EmptyObject, status |-> 0,
               body |-> Empty,
               ran |-> <<>>, calls |-> <<>>]
    /\ client = Landing

AuthLogin == \E s \in DOMAIN session, body \in LoginBodies : Login(s, body)
AuthLogout == \E s \in DOMAIN session : Logout(s)
AuthGetUser == \E s \in DOMAIN session : AuthUser(s)
ProjectsList == \E s \in DOMAIN session, query \in ProjectQueries : GetProjects(s, query)
ProjectsGet == \E s \in DOMAIN session, id \in Ids : GetProject(s, id)
ProjectsPost == \E s \in DOMAIN session, body \in ProjectBodies : PostProject(s, body)
ProjectsPut ==
    \E s \in DOMAIN session, id \in Ids, body \in ProjectPatches : PutProject(s, id, body)
ProjectsDelete == \E s \in DOMAIN session, id \in Ids : DeleteProject(s, id)
ConventionsList == \E s \in DOMAIN session : GetConventions(s)
ConventionsGet == \E s \in DOMAIN session, id \in Ids : GetConvention(s, id)
ConventionsPost == \E s \in DOMAIN session, body \in ConventionBodies : PostConvention(s, body)
ConventionsPut ==
    \E s \in DOMAIN session, id \in Ids, body \in ConventionPatches : PutConvention(s, id, body)
ConventionsDelete == \E s \in DOMAIN session, id \in Ids : DeleteConvention(s, id)
PartnersList == \E s \in DOMAIN session : GetPartners(s)
PartnersPost == \E s \in DOMAIN session, body \in PartnerBodies : PostPartner(s, body)
ProjectPartnersList == \E s \in DOMAIN session, id \in Ids : GetProjectPartners(s, id)
ProjectPartnersPost ==
    \E s \in DOMAIN session, id \in Ids, body \in ProjectPartnerBodies :
        PostProjectPartner(s, id, body)
ConventionProjectsList == \E s \in DOMAIN session, id \in Ids : GetConventionProjects(s, id)
ConventionProjectsPost ==
    \E s \in DOMAIN session, id \in Ids, body \in ConventionProjectBodies :
        PostConventionProject(s, id, body)
FinancialAdvancesList == \E s \in DOMAIN session, id \in Ids : GetFinancialAdvances(s, id)
FinancialAdvancesPost ==
    \E s \in DOMAIN session, id \in Ids, body \in FinancialAdvanceBodies :
        PostFinancialAdvance(s, id, body)
UsersList == \E s \in DOMAIN session : GetUsers(s)
UsersPost ==
    \E s \in DOMAIN session, body \in UserBodies, salt \in Salts : PostUser(s, body, salt)
UsersPut ==
    \E s \in DOMAIN session, id \in UserIds, body \in UserPatches, salt \in Salts :
        PutUser(s, id, body, salt)
UsersDelete == \E s \in DOMAIN session, id \in UserIds : DeleteUser(s, id)

Next ==
    \/ AuthLogin
    \/ AuthLogout
    \/ AuthGetUser
    \/ ProjectsList
    \/ ProjectsGet
    \/ ProjectsPost
    \/ ProjectsPut
    \/ ProjectsDelete
    \/ ConventionsList
    \/ ConventionsGet
    \/ ConventionsPost
    \/ ConventionsPut
    \/ ConventionsDelete
    \/ PartnersList
    \/ PartnersPost
    \/ ProjectPartnersList
    \/ ProjectPartnersPost
    \/ ConventionProjectsList
    \/ ConventionProjectsPost
    \/ FinancialAdvancesList
    \/ FinancialAdvancesPost
    \/ UsersList
    \/ UsersPost
    \/ UsersPut
    \/ UsersDelete

Spec == Init /\ [][Next]_vars

(* ------------------- the project routes, more inputs ------------------ *)
\* Project payloads: one that leaves the columns with defaults out, one with
\* the same budget and another identifier, one that gives every column.
ProjectPayloads ==
    { FullProject("PDR-001", "Piste rurale", "100"),
      FullProject("PDR-002", "Barrage", "100"),
      [identifier |-> Str("PDR-002"), title |-> Str("Barrage"), axis |-> Str("Axe 1"),
       domain |-> Str("Irrigation"), region |-> Str("Souss-Massa"),
       province |-> Str("Taroudant"), commune |-> Str("Aoulouz"), budget |-> Str("250.5"),
       engagements |-> Str("100"), payments |-> Str("0"), physicalProgress |-> Num(50),
       status |-> Str("suspended")] }
IdentifierPatches == { [identifier |-> Str("PDR-001")], [status |-> Str("archived")] }
ListQueries ==
    { EmptyObject,
      [sortBy |-> Str("budget"), sortOrder |-> Str("desc")],
      [search |-> Str("rr"), sortBy |-> Str("budget"), sortOrder |-> Str("desc")] }

\* The deployment with its three accounts, before any project is created.
InitNoProject ==
    /\ localUsers = { SeedUser(1, "admin", "admin"), SeedUser(2, "user1", "user"),
                      SeedUser(3, "superviseur1", "superviseur") }
    /\ projects = {}
    /\ conventions = {}
    /\ partners = {}
    /\ projectPartners = {}
    /\ conventionProjects = {}
    /\ financialAdvances = {}
    /\ serial = [localUsers |-> SeedUsers, projects |-> 0, conventions |-> 0, partners |-> 0,
                 projectPartners |-> 0, conventionProjects |-> 0, financialAdvances |-> 0]
    /\ now = 0
    /\ session = [s \in Sessions |-> <<>>]
    /\ resp = [route |-> "", sid |-> "", id |-> 0, input |-> EmptyObject, status |-> 0,
               body |-> Empty,
               ran |-> <<>>, calls |-> <<>>]
    /\ client = Landing

AdminLogin == \E s \in DOMAIN session : Login(s, Credentials("admin", "admin123"))
ProjectsCreate == \E s \in DOMAIN session, body \in ProjectPayloads : PostProject(s, body)
ProjectsUpdate ==
    \E s \in DOMAIN session, id \in Ids, body \in IdentifierPatches : PutProject(s, id, body)
ProjectsSearch == \E s \in DOMAIN session, query \in ListQueries : GetProjects(s, query)

\* Requests to the project routes, in any interleaving.
NextProjects ==
    \/ AdminLogin
    \/ ProjectsCreate
    \/ ProjectsUpdate
    \/ ProjectsGet
    \/ ProjectsDelete
SpecProjects == InitNoProject /\ [][NextProjects]_vars

\* Creates and listings of projects while the clock advances.
NextListing ==
    \/ AdminLogin
    \/ Tick
    \/ ProjectsCreate
    \/ ProjectsSearch
SpecListing == InitNoProject /\ [][NextListing]_vars

(* --------------------- accounts and their passwords ------------------- *)
Usernames == {"admin", "user2", "ghost"}
Passwords == {"admin123", "p1", "p2", "x72a", "x72b"}
UserLogins == { Credentials(u, p) : u \in Usernames, p \in Passwords }
UserPayloads ==
    { [username |-> Str("user2"), password |-> Str("p1")],
      [username |-> Str("user2"), password |-> Str("x72a"), role |-> Str("user")] }

CredentialLogin == \E s \in DOMAIN session, body \in UserLogins : Login(s, body)
UsersCreate ==
    \E s \in DOMAIN session, body \in UserPayloads, salt \in Salts : PostUser(s, body, salt)

\* Accounts created and deleted by the administrator, and logins.
NextAccounts ==
    \/ CredentialLogin
    \/ UsersCreate
    \/ UsersDelete
SpecAccounts == InitNoProject /\ [][NextAccounts]_vars

(* ------------------------- updates of accounts ------------------------ *)
\* Payloads of PUT /users/:id: without password, with the empty password, with
\* a new password.
PasswordPatches ==
    { [role |-> Str("user")], [role |-> Str("user"), password |-> Str("")],
      [password |-> Str("p2")] }
SeedLogins ==
    { Credentials(u, p) : u \in {"admin", "superviseur1"}, p \in {"admin123", "p2"} }
SeedLogin == \E s \in DOMAIN session, body \in SeedLogins : Login(s, body)
UsersUpdate ==
    \E s \in DOMAIN session, id \in UserIds, body \in PasswordPatches, salt \in Salts :
        PutUser(s, id, body, salt)

\* Accounts updated by the administrator, and logins.
NextPasswords ==
    \/ SeedLogin
    \/ UsersCreate
    \/ UsersUpdate
SpecPasswords == InitNoProject /\ [][NextPasswords]_vars

(* ------------------------- updates of projects ------------------------ *)
\* Payloads of PUT /projects/:id: one text column; a decimal and the status;
\* a nullable column set to null.
FramePatches ==
    { [title |-> Str("Piste")],
      [budget |-> Str("250.5"), status |-> Str("suspended")],
      [engagements |-> Null] }
ProjectsModify ==
    \E s \in DOMAIN session, id \in Ids, body \in FramePatches : PutProject(s, id, body)

\* Creates and updates of projects while the clock advances.
NextUpdates ==
    \/ AdminLogin
    \/ Tick
    \/ ProjectsCreate
    \/ ProjectsModify
SpecUpdates == InitNoProject /\ [][NextUpdates]_vars

(* ---------------------- two clients, roles changed -------------------- *)
\* The deployment before any project is created, with two clients.
InitTwoSessions ==
    /\ localUsers = { SeedUser(1, "admin", "admin"), SeedUser(2, "user1", "user"),
                      SeedUser(3, "superviseur1", "superviseur") }
    /\ projects = {}
    /\ conventions = {}
    /\ partners = {}
    /\ projectPartners = {}
    /\ conventionProjects = {}
    /\ financialAdvances = {}
    /\ serial = [localUsers |-> SeedUsers, projects |-> 0, conventions |-> 0, partners |-> 0,
                 projectPartners |-> 0, conventionProjects |-> 0, financialAdvances |-> 0]
    /\ now = 0
    /\ session = [s \in {"s1", "s2"} |-> <<>>]
    /\ resp = [route |-> "", sid |-> "", id |-> 0, input |-> EmptyObject, status |-> 0,
               body |-> Empty,
               ran |-> <<>>, calls |-> <<>>]
    /\ client = Landing

RoleLogins == { Credentials("admin", "admin123"), Credentials("superviseur1", "admin123") }
RoleLogin == \E s \in DOMAIN session, body \in RoleLogins : Login(s, body)

\* An administrator changes and deletes accounts while their sessions are open.
NextStaleRole ==
    \/ RoleLogin
    \/ AuthLogout
    \/ UsersPut
    \/ UsersDelete
    \/ ProjectsGet
    \/ ProjectsDelete
SpecStaleRole == InitTwoSessions /\ [][NextStaleRole]_vars

(* ------------------- rows created below a parent ---------------------- *)
\* Payloads that carry a parent id of their own, and payloads that do not.
ChildPartnerBodies ==
    { [projectId |-> Num(2), partnerId |-> Num(1), year |-> Num(2025),
       plannedContribution |-> Str("100")],
      [partnerId |-> Num(1), year |-> Num(2025), plannedContribution |-> Str("100")] }
ChildProjectBodies ==
    { [conventionId |-> Num(2), projectId |-> Num(1)], [projectId |-> Num(1)] }
ChildAdvanceBodies ==
    { [projectId |-> Num(2), referenceDate |-> Str("2025-07-14"), engagement |-> Str("100"),
       payment |-> Str("0")],
      [referenceDate |-> Str("2025-07-14"), engagement |-> Str("100"), payment |-> Str("0")] }
ProjectPartnersCreate ==
    \E s \in DOMAIN session, id \in Ids, body \in ChildPartnerBodies :
        PostProjectPartner(s, id, body)
ConventionProjectsCreate ==
    \E s \in DOMAIN session, id \in Ids, body \in ChildProjectBodies :
        PostConventionProject(s, id, body)
FinancialAdvancesCreate ==
    \E s \in DOMAIN session, id \in Ids, body \in ChildAdvanceBodies :
        PostFinancialAdvance(s, id, body)

\* Creates of junction and child rows.
NextChildren ==
    \/ AdminLogin
    \/ ProjectPartnersCreate
    \/ ConventionProjectsCreate
    \/ FinancialAdvancesCreate
SpecChildren == InitNoProject /\ [][NextChildren]_vars

(* ------------------------ the pages in the browser -------------------- *)
\* A convention created at time 0, with or without a document.
SeedConvention(id, documentUrl) ==
    [id |-> id, title |-> "Convention cadre", dateVisa |-> Null, status |-> "pending",
     programme |-> "PDR Souss-Massa", documentUrl |-> documentUrl,
     createdAt |-> 0, updatedAt |-> 0]

\* The deployment with its three accounts, one project and two conventions.
InitClient ==
    /\ localUsers = { SeedUser(1, "admin", "admin"), SeedUser(2, "user1", "user"),
                      SeedUser(3, "superviseur1", "superviseur") }
    /\ projects = { SeedProject }
    /\ conventions = { SeedConvention(1, Null), SeedConvention(2, Str("/uploads/a.pdf")) }
    /\ partners = {}
    /\ projectPartners = {}
    /\ conventionProjects = {}
    /\ financialAdvances = {}
    /\ serial = [localUsers |-> SeedUsers, projects |-> 1, conventions |-> 2, partners |-> 0,
                 projectPartners |-> 0, conventionProjects |-> 0, financialAdvances |-> 0]
    /\ now = 0
    /\ session = [s \in Sessions |-> <<>>]
    /\ resp = [route |-> "", sid |-> "", id |-> 0, input |-> EmptyObject, status |-> 0,
               body |-> Empty,
               ran |-> <<>>, calls |-> <<>>]
    /\ client = Landing

ClientLogins ==
    { Credentials("admin", "admin123"), Credentials("user1", "admin123"),
      Credentials("superviseur1", "admin123") }
\* what the file picker can hand over
Files ==
    { [name |-> "b.pdf", type |-> "application/pdf", size |-> 1024],
      [name |-> "c.pdf", type |-> "application/pdf", size |-> MaxFileSize + 1],
      [name |-> "d.txt", type |-> "text/plain", size |-> 1024] }
\* the values of the convention form: documentUrl keeps its default
ConventionForms(record) ==
    { [title |-> Str("Convention cadre"), status |-> Str("pending"),
       programme |-> Str("PDR Souss-Massa"),
       documentUrl |-> IF record = <<>> THEN Str("") ELSE OrEmpty(record[1].documentUrl)] }
UploadAnswers == { [status |-> 200, url |-> "/uploads/b.pdf"], [status |-> 500, url |-> ""] }
ProjectForms == { FullProject("PDR-002", "Pont", "250") }

PageLogin == \E s \in DOMAIN session, body \in ClientLogins : Login(s, body)
PageLoad == \E s \in DOMAIN session : HomeMount(s)
LayoutTab == \E tab \in {"projects", "conventions", "users"} : SetActiveTab(tab)
ConventionsModify == \E convention \in conventions : ConventionsEdit(convention)
ConventionFile == \E file \in Files : handleFileSelect(file)
ConventionSubmit ==
    /\ client.modal = "convention"
    /\ \E data \in ConventionForms(client.record) : ConventionModalSubmit(data)
ConventionUploaded == \E a \in UploadAnswers : UploadSettles(a.status, a.url)
ConventionAnswered == \E status \in {200, 401, 500} : ConventionRequestSettles(status)
ProjectModalOpen ==
    \E project \in {<<>>} \cup { <<p>> : p \in projects } : ProjectModalMount(project)
ProjectSubmit == \E data \in ProjectForms : ProjectModalSubmit(data)
ProjectAnswered == \E status \in {200, 500} : ProjectRequestSettles(status)

NextClient ==
    \/ PageLogin
    \/ AuthLogout
    \/ PageLoad
    \/ LayoutTab
    \/ ConventionsAdd
    \/ ConventionsModify
    \/ ModalClose
    \/ ConventionFile
    \/ ConventionSubmit
    \/ ConventionUploaded
    \/ ConventionAnswered
    \/ ProjectModalOpen
    \/ ProjectSubmit
    \/ ProjectAnswered

SpecClient == InitClient /\ [][NextClient]_vars

(* ======================= properties of the routes ===================== *)
Roles == {"admin", "user", "superviseur"}
\* The role policy: the roles each permission helper is meant to admit.
PolicyTable ==
    [canRead |-> {"admin", "user", "superviseur"},
     canWrite |-> {"admin", "user"},
     canManageUsers |-> {"admin"}]
\* The routes that require a session: every route but login and logout.
Protected == DOMAIN Guard \cup {"GET /api/auth/user"}
\* The last request came from a session that holds a principal. (The routes
\* other than login and logout leave the session as it was.)
LoggedIn == resp.sid \in DOMAIN session /\ session[resp.sid] # <<>>
NoPrincipal == resp.sid \in DOMAIN session /\ session[resp.sid] = <<>>
RoleOfCaller == session[resp.sid][1].role
\* The validator or the handler of the request ran.
HandlerRan(r) == \E i \in DOMAIN r.ran : r.ran[i] \in {"parse", "storage"}

\* C1: on a route registered with canRead, canWrite or canManageUsers, a request
\* of an authenticated session of role R reaches the handler iff the policy
\* table admits R for that permission, and is answered 403 otherwise.
C1_RolePolicy ==
    (/\ resp.route \in DOMAIN Guard
     /\ Guard[resp.route] \in DOMAIN PolicyTable
     /\ LoggedIn
     /\ RoleOfCaller \in Roles)
    => IF RoleOfCaller \in PolicyTable[Guard[resp.route]]
       THEN HandlerRan(resp) /\ resp.status \notin {401, 403}
       ELSE resp.status = 403 /\ ~HandlerRan(resp)

C1_Witness ==
    /\ resp.route = "GET /api/users"
    /\ LoggedIn
    /\ RoleOfCaller = "user"
    /\ resp.status = 403

\* C3: a request of a session without principal is answered 401 on every
\* protected route, whatever its payload; the role check, the validator and
\* the storage are not reached.
C3_NoSession401 ==
    (resp.route \in Protected /\ NoPrincipal)
    => /\ resp.status = 401
       /\ resp.ran = <<"session">>
       /\ resp.calls = <<>>

C3_Witness ==
    /\ resp.route = "POST /api/projects/:id/partners"
    /\ NoPrincipal
    /\ ZodIssues(insertProjectPartnerSchema, resp.input, FALSE) # {}
    /\ resp.status = 401

\* C4: a request the middleware refuses (401 or 403) runs neither validator nor
\* handler, calls no storage method and leaves every table and sequence as it was.
C4_RefusedTouchesNothing ==
    [][(resp'.route \in DOMAIN Guard /\ resp'.status \in {401, 403})
         => /\ store' = store
            /\ serial' = serial
            /\ resp'.calls = <<>>
            /\ ~HandlerRan(resp')]_vars

C4_Witness ==
    /\ resp.route = "DELETE /api/projects/:id"
    /\ resp.status = 403
    /\ Row(projects, resp.id) # {}

\* C5: on GET/PUT/DELETE of /projects/:id, /conventions/:id and PUT/DELETE of
\* /users/:id, the answer to a request without principal or with an insufficient
\* role is fixed by the session alone: the same status and body whether or not
\* the target id exists.
IdRoutes ==
    { "GET /api/projects/:id", "PUT /api/projects/:id", "DELETE /api/projects/:id",
      "GET /api/conventions/:id", "PUT /api/conventions/:id", "DELETE /api/conventions/:id",
      "PUT /api/users/:id", "DELETE /api/users/:id" }
C5_RefusalIndependentOfStore ==
    resp.route \in IdRoutes
    => /\ NoPrincipal => resp.status = 401 /\ resp.body = Message("Unauthorized")
       /\ (LoggedIn /\ RoleOfCaller \notin PolicyTable[Guard[resp.route]])
            => resp.status = 403 /\ resp.body = Message("Insufficient permissions")

C5_Witness ==
    /\ resp.route = "PUT /api/projects/:id"
    /\ LoggedIn
    /\ RoleOfCaller = "superviseur"
    /\ Row(projects, resp.id) = {}
    /\ resp.status = 403

\* The principal of a session is a superviseur.
Superviseur(s) == s \in DOMAIN session /\ session[s] # <<>> /\ session[s][1].role = "superviseur"
\* The routes that create, update or delete project, convention, partner,
\* junction or financial-advance rows.
WriteRoutes ==
    { "POST /api/projects", "PUT /api/projects/:id", "DELETE /api/projects/:id",
      "POST /api/conventions", "PUT /api/conventions/:id", "DELETE /api/conventions/:id",
      "POST /api/partners", "POST /api/projects/:id/partners",
      "POST /api/conventions/:id/projects", "POST /api/projects/:id/financial-advances" }

\* C2: a request of a superviseur session to any write route, the junction
\* routes included, is answered 403 and leaves the store unchanged, while its
\* GET /projects is answered 200.
C2_SuperviseurNeverWrites ==
    [][Superviseur(resp'.sid)
         => /\ resp'.route \in WriteRoutes => resp'.status = 403 /\ store' = store
            /\ resp'.route = "GET /api/projects" => resp'.status = 200]_vars

\* C6: no response carries a password field of a user, hashed or not.
C6_NoPasswordInResponse ==
    \A i \in DOMAIN resp.body.json : "password" \notin DOMAIN resp.body.json[i]

\* C7: a successful login puts the user who logged in into the session, logout
\* empties it, and every other request leaves it as it was; GET /auth/user
\* answers 200 with the principal of the session when there is one and 401
\* otherwise, and without principal every protected route answers 401.
C7_SessionLifecycle ==
    [][LET s == resp'.sid
           r == resp'
       IN  /\ \A o \in DOMAIN session \ {s} : session'[o] = session[o]
           /\ IF r.route = "POST /api/auth/login" /\ r.status = 200
              THEN /\ session'[s] # <<>>
                   /\ session'[s][1].username = r.input.username[2]
                   /\ r.body.json[1].id = session'[s][1].id
              ELSE IF r.route = "POST /api/auth/logout"
              THEN session'[s] = <<>>
              ELSE /\ session'[s] = session[s]
                   /\ r.route = "GET /api/auth/user"
                        => IF session[s] # <<>>
                           THEN /\ r.status = 200
                                /\ r.body.json[1].id = session[s][1].id
                                /\ r.body.json[1].username = session[s][1].username
                                /\ r.body.json[1].role = session[s][1].role
                           ELSE r.status = 401
                   /\ (r.route \in Protected /\ session[s] = <<>>) => r.status = 401]_vars

C7_Witness ==
    /\ resp.route = "GET /api/auth/user"
    /\ resp.status = 200
    /\ resp.body.json[1].username = "user1"

\* validateLocalUser accepts the credentials of a login body.
LoginAccepted(body) ==
    /\ Truthy(body, "username")
    /\ Truthy(body, "password")
    /\ validateLocalUser(body.username, body.password).result # <<>>

\* C8 as claimed: login stores the validated user when validateLocalUser accepts;
\* every other login request is answered 401 and leaves the session as it was.
C8_LoginOr401 ==
    [][resp'.route = "POST /api/auth/login"
         => IF LoginAccepted(resp'.input)
            THEN /\ resp'.status = 200
                 /\ session'[resp'.sid]
                      = validateLocalUser(resp'.input.username, resp'.input.password).result
            ELSE resp'.status = 401 /\ session' = session]_vars

\* C8 amended: login stores the validated user only when validateLocalUser
\* accepts; otherwise the session is left as it was and the answer is 400 when
\* username or password is missing or falsy, 500 when validateLocalUser throws,
\* 401 when it rejects.
C8_LoginAmended ==
    [][resp'.route = "POST /api/auth/login"
         => LET body == resp'.input IN
            IF LoginAccepted(body)
            THEN /\ resp'.status = 200
                 /\ session'[resp'.sid] = validateLocalUser(body.username, body.password).result
            ELSE /\ session' = session
                 /\ resp'.status =
                      IF ~Truthy(body, "username") \/ ~Truthy(body, "password") THEN 400
                      ELSE IF validateLocalUser(body.username, body.password).threw THEN 500
                      ELSE 401]_vars

C8_Witness ==
    /\ resp.route = "POST /api/auth/login"
    /\ resp.status = 401
    /\ LoggedIn
    /\ session[resp.sid][1].username = "user1"

\* C9: creating a project whose identifier an existing project has is answered
\* with a conflict (409) and leaves the projects table as it was.
C9_DuplicateIsConflict ==
    [][(/\ resp'.route = "POST /api/projects"
        /\ resp'.calls = <<"createProject">>
        /\ \E p \in projects : p.identifier = resp'.input.identifier[2])
         => resp'.status = 409 /\ projects' = projects]_vars

\* C10: updating a project id that is not in the table is answered 404 and
\* leaves the table as it was.
C10_UpdateMissingIsNotFound ==
    [][(/\ resp'.route = "PUT /api/projects/:id"
        /\ resp'.calls = <<"updateProject">>
        /\ Row(projects, resp'.id) = {})
         => resp'.status = 404 /\ projects' = projects]_vars

\* The session of a request holds a principal the middleware of the route admits.
Authorized(route, s) ==
    /\ s \in DOMAIN session
    /\ session[s] # <<>>
    /\ Guard[route] \in DOMAIN PolicyTable => session[s][1].role \in PolicyTable[Guard[route]]

DeleteRoutes ==
    [r \in {"DELETE /api/projects/:id"} |-> "projects"]
    @@ [r \in {"DELETE /api/conventions/:id"} |-> "conventions"]
    @@ [r \in {"DELETE /api/users/:id"} |-> "localUsers"]
\* The rows of the table a delete route works on.
TableOf(name) ==
    CASE name = "projects" -> projects
      [] name = "conventions" -> conventions
      [] name = "localUsers" -> localUsers
TableAfter(name) ==
    CASE name = "projects" -> projects'
      [] name = "conventions" -> conventions'
      [] name = "localUsers" -> localUsers'

\* C11: an authorized DELETE of a project, a convention or a user answers 204
\* only when a row with that id existed and was removed; for an id that is not
\* in the table it answers 404 and leaves the store as it was.
C11_DeleteMissingIsNotFound ==
    [][(resp'.route \in DOMAIN DeleteRoutes /\ Authorized(resp'.route, resp'.sid))
         => IF Row(TableOf(DeleteRoutes[resp'.route]), resp'.id) = {}
            THEN resp'.status = 404 /\ store' = store
            ELSE resp'.status = 204
                 /\ Row(TableAfter(DeleteRoutes[resp'.route]), resp'.id) = {}]_vars

\* The create and update routes: the schema each parses its payload with and
\* whether it parses with the partial schema.
Parses ==
    [r \in {"POST /api/projects"} |-> [schema |-> insertProjectSchema, partial |-> FALSE]]
    @@ [r \in {"PUT /api/projects/:id"} |-> [schema |-> insertProjectSchema, partial |-> TRUE]]
    @@ [r \in {"POST /api/conventions"} |-> [schema |-> insertConventionSchema, partial |-> FALSE]]
    @@ [r \in {"PUT /api/conventions/:id"} |-> [schema |-> insertConventionSchema, partial |-> TRUE]]
    @@ [r \in {"POST /api/partners"} |-> [schema |-> insertPartnerSchema, partial |-> FALSE]]
    @@ [r \in {"POST /api/projects/:id/partners"}
          |-> [schema |-> insertProjectPartnerSchema, partial |-> FALSE]]
    @@ [r \in {"POST /api/conventions/:id/projects"}
          |-> [schema |-> insertConventionProjectSchema, partial |-> FALSE]]
    @@ [r \in {"POST /api/projects/:id/financial-advances"}
          |-> [schema |-> insertFinancialAdvanceSchema, partial |-> FALSE]]
    @@ [r \in {"POST /api/users"} |-> [schema |-> insertLocalUserSchema, partial |-> FALSE]]
    @@ [r \in {"PUT /api/users/:id"} |-> [schema |-> insertLocalUserSchema, partial |-> TRUE]]
\* The payload a route hands to its schema: the body, with the path id put in
\* on the routes below a project or a convention.
Payload(r) ==
    CASE r.route \in {"POST /api/projects/:id/partners",
                      "POST /api/projects/:id/financial-advances"}
           -> Spread(r.input, "projectId", Num(r.id))
      [] r.route = "POST /api/conventions/:id/projects"
           -> Spread(r.input, "conventionId", Num(r.id))
      [] OTHER -> r.input
\* The payload of a request to a create or update route fails its schema.
FailsSchema(r) ==
    ZodIssues(Parses[r.route].schema, Payload(r), Parses[r.route].partial) # {}

\* C12: on every create or update route an authorized request whose payload
\* fails the schema is answered 400 with the list of field errors (one per
\* offending field, with its path and message); no storage method is called and
\* every table and sequence is left as it was.
C12_InvalidPayloadIs400 ==
    [][(/\ resp'.route \in DOMAIN Parses
        /\ Authorized(resp'.route, resp'.sid)
        /\ FailsSchema(resp'))
         => /\ resp'.status = 400
            /\ resp'.body.kind = "errors"
            /\ resp'.body.errors # {}
            /\ \A c \in Parses[resp'.route].schema :
                 (\/ (~Has(Payload(resp'), c.name) /\ c.required
                        /\ ~Parses[resp'.route].partial)
                  \/ (Has(Payload(resp'), c.name) /\ Payload(resp')[c.name] # Null
                        /\ TypeOf(Payload(resp')[c.name]) # c.type))
                 => \E e \in resp'.body.errors : e.path = c.name
            /\ resp'.calls = <<>>
            /\ store' = store
            /\ serial' = serial]_vars

C12_Witness ==
    /\ resp.route = "PUT /api/conventions/:id"
    /\ resp.status = 400
    /\ \E e \in resp.body.errors : e.path = "dateVisa"
    /\ Row(conventions, resp.id) # {}

\* C15: every project_partners row references a project and a partner that
\* exist, every convention_projects row a convention and a project, every
\* financial_advances row a project.
C15_ReferencesExist ==
    /\ \A pp \in projectPartners :
         Row(projects, pp.projectId) # {} /\ Row(partners, pp.partnerId) # {}
    /\ \A cp \in conventionProjects :
         Row(conventions, cp.conventionId) # {} /\ Row(projects, cp.projectId) # {}
    /\ \A fa \in financialAdvances : Row(projects, fa.projectId) # {}

\* C13: in every state no two rows of projects have the same identifier, and a
\* POST /projects or PUT /projects/:id that would give a second row an
\* identifier already taken inserts and changes nothing, in any interleaving of
\* the requests.
C13_IdentifierUnique ==
    /\ [](\A p, q \in projects : p.identifier = q.identifier => p = q)
    /\ [][(/\ resp'.route = "POST /api/projects"
           /\ Has(resp'.input, "identifier")
           /\ \E p \in projects : p.identifier = resp'.input.identifier[2])
            => projects' = projects]_vars
    /\ [][(/\ resp'.route = "PUT /api/projects/:id"
           /\ Has(resp'.input, "identifier")
           /\ \E p \in projects : p.id # resp'.id /\ p.identifier = resp'.input.identifier[2])
            => projects' = projects]_vars

C13_Witness ==
    /\ Cardinality(projects) = 2
    /\ resp.route = "PUT /api/projects/:id"
    /\ Has(resp.input, "identifier")
    /\ \E p \in projects : p.id # resp.id /\ p.identifier = resp.input.identifier[2]
    /\ resp.status = 500

\* C14: the identifier stored under a project id never changes while the
\* project exists, whatever requests are made, a PUT that carries another
\* identifier included.
C14_IdentifierImmutable ==
    [][\A p \in projects, q \in projects' : p.id = q.id => q.identifier = p.identifier]_vars

ProjectStatuses == {"active", "inactive", "suspended", "cancelled"}
ConventionStatuses == {"pending", "signed", "adoption", "partners", "visa"}
\* C16: no stored project or convention carries a status, and no stored user a
\* role, outside the fixed value set of the field.
C16_EnumsWithinSets ==
    /\ \A p \in projects : p.status \in ProjectStatuses
    /\ \A c \in conventions : c.status \in ConventionStatuses
    /\ \A u \in localUsers : u.role \in Roles

\* The text columns of a project that a payload must give.
ProjectTexts == {"identifier", "title", "axis", "domain", "region", "province", "commune"}
\* The row a POST /projects answered with is the row GET /projects/:id finds
\* under the returned id, and GET /projects/:id answers with the stored row.
ReadsBack ==
    /\ (resp'.route = "POST /api/projects" /\ resp'.status = 201)
         => /\ Row(projects, resp'.body.json[1].id) = {}
            /\ Row(projects', resp'.body.json[1].id) = {resp'.body.json[1]}
            /\ resp'.body.json[1].createdAt = now
            /\ resp'.body.json[1].updatedAt = now
    /\ (resp'.route = "GET /api/projects/:id" /\ resp'.status = 200)
         => Row(projects', resp'.id) = {resp'.body.json[1]}

\* C20 as claimed: the record read back after POST /projects has every
\* submitted field equal to the payload's, the omitted engagements, payments,
\* physicalProgress and status at their default, and an id, createdAt and
\* updatedAt the server assigned.
C20_RoundTrip ==
    [][/\ ReadsBack
       /\ (resp'.route = "POST /api/projects" /\ resp'.status = 201)
            => LET P == resp'.input
                   row == resp'.body.json[1]
               IN  /\ \A k \in ProjectTexts : row[k] = P[k][2]
                   /\ row.budget = P.budget[2]
                   /\ row.engagements
                        = IF Has(P, "engagements") THEN P.engagements ELSE Str("0")
                   /\ row.payments = IF Has(P, "payments") THEN P.payments ELSE Str("0")
                   /\ row.physicalProgress
                        = IF Has(P, "physicalProgress") THEN P.physicalProgress ELSE Num(0)
                   /\ row.status = IF Has(P, "status") THEN P.status[2] ELSE "active"]_vars

\* The text a decimal(15, 2) column gives back for the texts of the payloads.
TwoDecimals(text) ==
    CASE text \in {"0", "0.00"} -> "0.00"
      [] text \in {"100", "100.00"} -> "100.00"
      [] text \in {"250.5", "250.50"} -> "250.50"

\* C20 amended: as claimed, except that budget, engagements and payments are
\* read back as the two-decimal text of the number submitted ("100" as
\* "100.00"), the omitted engagements and payments as "0.00".
C20_RoundTripDecimals ==
    [][/\ ReadsBack
       /\ (resp'.route = "POST /api/projects" /\ resp'.status = 201)
            => LET P == resp'.input
                   row == resp'.body.json[1]
               IN  /\ \A k \in ProjectTexts : row[k] = P[k][2]
                   /\ row.budget = TwoDecimals(P.budget[2])
                   /\ row.engagements
                        = IF Has(P, "engagements") /\ P.engagements = Null THEN Null
                          ELSE IF Has(P, "engagements")
                               THEN Str(TwoDecimals(P.engagements[2]))
                               ELSE Str("0.00")
                   /\ row.payments
                        = IF Has(P, "payments") /\ P.payments = Null THEN Null
                          ELSE IF Has(P, "payments")
                               THEN Str(TwoDecimals(P.payments[2]))
                               ELSE Str("0.00")
                   /\ row.physicalProgress
                        = IF Has(P, "physicalProgress") THEN P.physicalProgress ELSE Num(0)
                   /\ row.status = IF Has(P, "status") THEN P.status[2] ELSE "active"]_vars

C20_Witness ==
    /\ resp.route = "GET /api/projects/:id"
    /\ resp.status = 200
    /\ resp.body.json[1].identifier = "PDR-001"
    /\ resp.body.json[1].budget = "100.00"
    /\ resp.body.json[1].engagements = Str("0.00")
    /\ resp.body.json[1].status = "active"

\* The projects a listing request asks for.
Matching(query) ==
    IF Has(query, "search") /\ query.search[2] # ""
    THEN { p \in projects : like(p.title, query.search[2]) }
    ELSE projects
BudgetDesc(r) ==
    /\ r.route = "GET /api/projects"
    /\ r.status = 200
    /\ Has(r.input, "sortBy") /\ r.input.sortBy = Str("budget")
    /\ Has(r.input, "sortOrder") /\ r.input.sortOrder = Str("desc")
\* A list holds every row of a set exactly once.
ExactlyOnce(list, rows) ==
    /\ Len(list) = Cardinality(rows)
    /\ \A p \in rows : \E i \in DOMAIN list : list[i] = p
NonIncreasingBudget(list) ==
    \A i \in 1..(Len(list) - 1) :
        NumericValue(list[i].budget) >= NumericValue(list[i + 1].budget)

\* C17 as claimed: the listing by budget, descending, holds every project that
\* matches the search exactly once, in non-increasing budget order, projects of
\* equal budget in the order they were inserted.
C17_BudgetDescStable ==
    BudgetDesc(resp)
    => LET list == resp.body.json IN
       /\ ExactlyOnce(list, Matching(resp.input))
       /\ NonIncreasingBudget(list)
       /\ \A i \in 1..(Len(list) - 1) :
            list[i].budget = list[i + 1].budget => list[i].id < list[i + 1].id

\* C17 amended: the listing by budget, descending, holds every project that
\* matches the search exactly once, in non-increasing budget order; the order
\* of projects of equal budget is not fixed.
C17_BudgetDesc ==
    BudgetDesc(resp)
    => /\ ExactlyOnce(resp.body.json, Matching(resp.input))
       /\ NonIncreasingBudget(resp.body.json)

C17_Witness ==
    /\ BudgetDesc(resp)
    /\ Len(resp.body.json) = 2
    /\ resp.body.json[1].budget = "250.50"
    /\ resp.body.json[2].budget = "100.00"

NoSort(r) ==
    /\ r.route = "GET /api/projects"
    /\ r.status = 200
    /\ ~Has(r.input, "sortBy")
    /\ ~Has(r.input, "sortOrder")

\* C18 as claimed: without sortBy and sortOrder the projects are listed by
\* createdAt, newest first.
C18_DefaultNewestFirst ==
    NoSort(resp)
    => /\ ExactlyOnce(resp.body.json, Matching(resp.input))
       /\ \A i \in 1..(Len(resp.body.json) - 1) :
            resp.body.json[i].createdAt >= resp.body.json[i + 1].createdAt

\* C18 amended: without sortBy and sortOrder the projects are listed by
\* createdAt, oldest first.
C18_DefaultOldestFirst ==
    NoSort(resp)
    => /\ ExactlyOnce(resp.body.json, Matching(resp.input))
       /\ \A i \in 1..(Len(resp.body.json) - 1) :
            resp.body.json[i].createdAt <= resp.body.json[i + 1].createdAt

C18_Witness ==
    /\ NoSort(resp)
    /\ Len(resp.body.json) = 2
    /\ resp.body.json[1].createdAt < resp.body.json[2].createdAt

\* createLocalUser has just stored the account of the payload.
Created == resp.route = "POST /api/users" /\ resp.status = 201
\* validateLocalUser returns no user for a name no account has, and every
\* stored password is a bcrypt hash, not the text given.
UnknownAndHashed ==
    /\ \A u \in Usernames, q \in Passwords :
         (\A a \in localUsers : a.username # u)
           => validateLocalUser(Str(u), Str(q)) = Returned(<<>>, localUsers)
    /\ \A a \in localUsers : a.password[1] = "$2b$10$"

\* C19 as claimed: after createLocalUser(u, p), validateLocalUser(u, p) returns
\* the user and validateLocalUser(u, q) returns no user for every q other than
\* p; for an unknown username it returns no user; the stored password is not
\* the plain text.
C19_PasswordCheck ==
    /\ UnknownAndHashed
    /\ Created
         => LET u == resp.input.username
                p == resp.input.password
            IN  /\ validateLocalUser(u, p).result # <<>>
                /\ validateLocalUser(u, p).result[1].username = u[2]
                /\ \A q \in Passwords \ {p[2]} : validateLocalUser(u, Str(q)).result = <<>>

\* C19 amended: as claimed, for every q that differs from p within the first 72
\* bytes; a q that agrees with p on its first 72 bytes is accepted like p.
C19_PasswordCheck72 ==
    /\ UnknownAndHashed
    /\ Created
         => LET u == resp.input.username
                p == resp.input.password
            IN  /\ validateLocalUser(u, p).result # <<>>
                /\ validateLocalUser(u, p).result[1].username = u[2]
                /\ \A q \in Passwords :
                     validateLocalUser(u, Str(q)).result = <<>>
                       <=> Bytes72(q) # Bytes72(p[2])

C19_Witness ==
    /\ Created
    /\ resp.input.password = Str("p1")
    /\ validateLocalUser(resp.input.username, Str("p2")).result = <<>>
    /\ validateLocalUser(Str("ghost"), Str("p1")).result = <<>>

\* The session of a request holds a principal of role admin.
AdminSession(s) == s \in DOMAIN session /\ session[s] # <<>> /\ session[s][1].role = "admin"

\* C21: for an admin session, DELETE /users/:id of an existing user other than
\* the caller answers 204 and removes that user and no other; an id once
\* removed is never given to a later user; every GET /users lists exactly the
\* stored users, each once, so the removed id is absent from it and the other
\* users are listed.
C21_DeletedUserNotListed ==
    /\ [][(/\ resp'.route = "DELETE /api/users/:id"
           /\ AdminSession(resp'.sid)
           /\ Row(localUsers, resp'.id) # {}
           /\ session[resp'.sid][1].id # resp'.id)
            => /\ resp'.status = 204
               /\ localUsers' = localUsers \ Row(localUsers, resp'.id)]_vars
    /\ [][\A u \in localUsers' : Row(localUsers, u.id) = {} => u.id > serial.localUsers]_vars
    /\ []((resp.route = "GET /api/users" /\ resp.status = 200)
            => /\ Len(resp.body.json) = Cardinality(localUsers)
               /\ \A u \in localUsers :
                    \E i \in DOMAIN resp.body.json :
                        /\ resp.body.json[i].id = u.id
                        /\ resp.body.json[i].username = u.username)

C21_Witness ==
    /\ resp.route = "GET /api/users"
    /\ resp.status = 200
    /\ serial.localUsers >= 3
    /\ \A i \in DOMAIN resp.body.json : resp.body.json[i].id # 3
    /\ \E i \in DOMAIN resp.body.json : resp.body.json[i].id = 2
    /\ \E i \in DOMAIN resp.body.json : resp.body.json[i].id = 1

\* C24: GET /projects/:id/partners answers with exactly the project_partners
\* rows of that project, each once and each paired with the partner whose id
\* is its partnerId; GET /conventions/:id/projects likewise pairs each
\* convention_projects row of the convention with its project; the paired
\* partner or project is never null.
C24_JoinedReadsPaired ==
    /\ (resp.route = "GET /api/projects/:id/partners" /\ resp.status = 200)
         => /\ Len(resp.body.json)
                 = Cardinality({ r \in projectPartners : r.projectId = resp.id })
            /\ \A r \in { x \in projectPartners : x.projectId = resp.id } :
                 \E i \in DOMAIN resp.body.json : resp.body.json[i].row = r
            /\ \A i \in DOMAIN resp.body.json :
                 /\ resp.body.json[i].partner # <<>>
                 /\ resp.body.json[i].partner[1].id = resp.body.json[i].row.partnerId
    /\ (resp.route = "GET /api/conventions/:id/projects" /\ resp.status = 200)
         => /\ Len(resp.body.json)
                 = Cardinality({ r \in conventionProjects : r.conventionId = resp.id })
            /\ \A r \in { x \in conventionProjects : x.conventionId = resp.id } :
                 \E i \in DOMAIN resp.body.json : resp.body.json[i].row = r
            /\ \A i \in DOMAIN resp.body.json :
                 /\ resp.body.json[i].project # <<>>
                 /\ resp.body.json[i].project[1].id = resp.body.json[i].row.projectId

\* C25: an authorized DELETE of a project answers 204 whether or not rows refer
\* to the project, removes the project row of that id and nothing else: every
\* project_partners, convention_projects and financial_advances row stays,
\* those of the deleted project included. DELETE of a convention likewise
\* leaves the convention_projects rows.
C25_DeleteDoesNotCascade ==
    [][/\ (resp'.route = "DELETE /api/projects/:id" /\ Authorized(resp'.route, resp'.sid))
            => /\ resp'.status = 204
               /\ projects' = projects \ Row(projects, resp'.id)
               /\ <<localUsers', conventions', partners'>> = <<localUsers, conventions, partners>>
               /\ projectPartners' = projectPartners
               /\ conventionProjects' = conventionProjects
               /\ financialAdvances' = financialAdvances
       /\ (resp'.route = "DELETE /api/conventions/:id" /\ Authorized(resp'.route, resp'.sid))
            => /\ resp'.status = 204
               /\ conventions' = conventions \ Row(conventions, resp'.id)
               /\ <<localUsers', projects', partners'>> = <<localUsers, projects, partners>>
               /\ projectPartners' = projectPartners
               /\ conventionProjects' = conventionProjects
               /\ financialAdvances' = financialAdvances]_vars

C25_Witness ==
    /\ resp.route = "DELETE /api/projects/:id"
    /\ resp.status = 204
    /\ Row(projects, resp.id) = {}
    /\ serial.projects >= resp.id
    /\ \/ \E r \in financialAdvances : r.projectId = resp.id
       \/ \E r \in projectPartners : r.projectId = resp.id
       \/ \E r \in conventionProjects : r.projectId = resp.id

AccountNames == {"admin", "user1", "superviseur1", "user2"}
\* validateLocalUser accepts a username with a password.
Accepts(u, q) == validateLocalUser(Str(u), Str(q)).result # <<>>

\* C22: a PUT /users/:id whose payload has no password, or the empty one,
\* leaves the stored hash of every user as it was, and every username and
\* password validates after it exactly as before; a payload with a non-empty
\* password replaces the hash of that user, and of no other, by a bcrypt hash
\* that the new password validates against.
C22_PasswordKeptUnlessGiven ==
    [][(resp'.route = "PUT /api/users/:id" /\ resp'.status = 200)
         => /\ \A a \in localUsers, b \in localUsers' :
                 (a.id = b.id /\ a.id # resp'.id) => b = a
            /\ IF ~Has(resp'.input, "password") \/ resp'.input.password = Str("")
               THEN /\ \A a \in localUsers, b \in localUsers' :
                         a.id = b.id => b.password = a.password
                    /\ \A u \in AccountNames, q \in Passwords :
                         Accepts(u, q) <=> Accepts(u, q)'
               ELSE \A b \in Row(localUsers', resp'.id) :
                      /\ b.password[1] = "$2b$10$"
                      /\ bcryptCompare(resp'.input.password[2], b.password)]_vars

C22_Witness ==
    /\ resp.route = "PUT /api/users/:id"
    /\ resp.status = 200
    /\ resp.id = 3
    /\ Has(resp.input, "password")
    /\ resp.input.password = Str("")
    /\ Accepts("superviseur1", "admin123")
    /\ ~Accepts("superviseur1", "p2")

\* The value an update gives a column of a project: the value of the payload
\* (for a decimal column its two-decimal text) when the payload has the
\* column, the old value otherwise.
Merged(P, old, k) ==
    IF ~Has(P, k) THEN old[k]
    ELSE CASE k \in ProjectTexts \cup {"status"} -> P[k][2]
           [] k = "budget" -> TwoDecimals(P[k][2])
           [] k \in {"engagements", "payments"}
                -> IF P[k] = Null THEN Null ELSE Str(TwoDecimals(P[k][2]))
           [] OTHER -> P[k]

\* C23: an update of an existing project that the store accepts (a step of
\* the request: the clock stands still) sets the
\* columns the payload has and no other: every other column of the project,
\* its id and its createdAt keep their value, every other project is as it
\* was, and updatedAt is the time of the update, not earlier than it was.
C23_UpdateFrame ==
    [][(/\ resp'.route = "PUT /api/projects/:id"
        /\ resp'.status = 200
        /\ now' = now
        /\ Row(projects, resp'.id) # {})
         => \A old \in Row(projects, resp'.id) :
              \E new \in projects' :
                /\ projects' = (projects \ {old}) \cup {new}
                /\ new.id = old.id
                /\ new.createdAt = old.createdAt
                /\ new.updatedAt = now
                /\ new.updatedAt >= old.updatedAt
                /\ \A k \in ProjectTexts \cup {"budget", "engagements", "payments",
                                               "physicalProgress", "status"} :
                     new[k] = Merged(resp'.input, old, k)
                /\ resp'.body.json = <<new>>]_vars

C23_Witness ==
    /\ resp.route = "PUT /api/projects/:id"
    /\ resp.status = 200
    /\ Cardinality(projects) = 2
    /\ Has(resp.input, "budget")
    /\ \E p \in Row(projects, resp.id) :
         p.updatedAt > p.createdAt /\ p.budget = "250.50" /\ p.title = "Piste rurale"

\* C27: a request to a route with a role check is admitted or answered 403 by
\* the role the session holds, whatever role local_users holds for that user
\* now and whether or not the user still exists; PUT and DELETE /users/:id
\* leave every session as it was; a session changes only by its own login,
\* which copies the stored user, or logout.
C27_SessionRoleDecides ==
    /\ [][(/\ resp'.route \in DOMAIN Guard
           /\ Guard[resp'.route] \in DOMAIN PolicyTable
           /\ session[resp'.sid] # <<>>)
            => /\ resp'.status # 401
               /\ resp'.status = 403
                    <=> session[resp'.sid][1].role \notin PolicyTable[Guard[resp'.route]]]_vars
    /\ [][resp'.route \in {"PUT /api/users/:id", "DELETE /api/users/:id"}
            => session' = session]_vars
    /\ [][\A s \in DOMAIN session :
            session'[s] # session[s]
              => /\ resp'.sid = s
                 /\ \/ resp'.route = "POST /api/auth/logout" /\ session'[s] = <<>>
                    \/ /\ resp'.route = "POST /api/auth/login"
                       /\ session'[s] # <<>>
                       /\ session'[s][1] \in localUsers]_vars

\* A session opened by superviseur1 is refused a write although the account
\* has since been given the role user.
C27_Witness ==
    /\ resp.route = "DELETE /api/projects/:id"
    /\ resp.status = 403
    /\ session[resp.sid] # <<>>
    /\ session[resp.sid][1].id = 3
    /\ session[resp.sid][1].role = "superviseur"
    /\ \E u \in localUsers : u.id = 3 /\ u.role = "user"

\* C28: the row created by POST /projects/:id/partners, by
\* POST /conventions/:id/projects and by POST /projects/:id/financial-advances
\* has the id of the path as its parent id, also when the body carries a
\* projectId or conventionId of its own; it is the one row added and the row
\* the response carries.
C28_PathIdIsParent ==
    [][/\ (resp'.route = "POST /api/projects/:id/partners" /\ resp'.status = 201)
            => \E row \in projectPartners' :
                 /\ projectPartners' \ projectPartners = {row}
                 /\ row.projectId = resp'.id
                 /\ resp'.body.json = <<row>>
       /\ (resp'.route = "POST /api/conventions/:id/projects" /\ resp'.status = 201)
            => \E row \in conventionProjects' :
                 /\ conventionProjects' \ conventionProjects = {row}
                 /\ row.conventionId = resp'.id
                 /\ resp'.body.json = <<row>>
       /\ (resp'.route = "POST /api/projects/:id/financial-advances" /\ resp'.status = 201)
            => \E row \in financialAdvances' :
                 /\ financialAdvances' \ financialAdvances = {row}
                 /\ row.projectId = resp'.id
                 /\ resp'.body.json = <<row>>]_vars

C28_Witness ==
    /\ resp.route = "POST /api/projects/:id/partners"
    /\ resp.status = 201
    /\ resp.id = 1
    /\ Has(resp.input, "projectId")
    /\ resp.input.projectId = Num(2)
    /\ \E row \in projectPartners : row.projectId = 1 /\ resp.body.json = <<row>>

\* C26: the client shows an action only to roles the server authorizes for
\* it.  The users tab is rendered iff the principal the page holds has role
\* admin; on the Conventions page the add button, and the edit button of every
\* row, are rendered iff the role is admin or user; a superviseur is shown no
\* users tab and no control that reaches a route guarded by canWrite or
\* canManageUsers; while the page holds the principal of the session, every
\* route a rendered control reaches passes its middleware; and the
\* ConventionModal is only ever opened for role admin or user.
ShowsFor(c) ==
    LET role == Role(c.user) IN
    /\ Control("Layout", "users", 0) \in Offered(c) <=> role = "admin"
    /\ Home(c.activeTab) = "Conventions" =>
         /\ Control("Conventions", "add", 0) \in Offered(c) <=> role \in {"admin", "user"}
         /\ \A row \in conventions :
              Control("Conventions", "edit", row.id) \in Offered(c)
                <=> role \in {"admin", "user"}
    /\ role = "superviseur" =>
         \A o \in Offered(c) : \A route \in Reaches(o) \cap DOMAIN Guard :
            Guard[route] \notin {"canWrite", "canManageUsers"}
    /\ \A s \in DOMAIN session : (c.user # <<>> /\ c.user = session[s]) =>
         \A o \in Offered(c) : \A route \in Reaches(o) \cap DOMAIN Guard : Chain(route, s).next
ConventionRoutes == {"POST /api/conventions", "PUT /api/conventions/:id"}
\* Of the requests a ConventionModal has sent: a convention request sent for a
\* selected file comes right after the upload of that file, answered 200, and
\* carries the URL of that answer; nothing is sent while an upload is
\* unanswered; no convention request comes after an upload that failed.
UploadFirst(log) ==
    \A i \in 1..Len(log) :
       /\ (log[i].route \in ConventionRoutes /\ log[i].file # <<>>) =>
            /\ i > 1
            /\ log[i - 1].route = "POST /api/upload"
            /\ log[i - 1].file = log[i].file
            /\ log[i - 1].status = 200
            /\ log[i].body.documentUrl = Str(log[i - 1].url)
       /\ (log[i].route = "POST /api/upload" /\ log[i].status = 0) => i = Len(log)
       /\ (log[i].route = "POST /api/upload" /\ log[i].status \notin {0, 200}) =>
            \A j \in (i + 1)..Len(log) : log[j].route \notin ConventionRoutes
\* The updates the mounted ConventionModal has sent without a file.
UpdatesWithoutFile(c) ==
    IF c.modal = "convention" /\ c.record # <<>>
    THEN { i \in 1..Len(c.requests) :
             c.requests[i].route = "PUT /api/conventions/:id" /\ c.requests[i].file = <<>> }
    ELSE {}

\* C29 as stated: with a file selected the convention request follows the
\* successful upload and carries its URL, a failed upload is followed by no
\* convention request, and an update without a new file carries the
\* documentUrl of the convention as it is.
C29_UploadThenRequest ==
    /\ UploadFirst(client.requests)
    /\ \A i \in UpdatesWithoutFile(client) :
          client.requests[i].body.documentUrl = client.record[1].documentUrl

\* C29, amended: as above, but an update without a new file carries the
\* documentUrl of the convention when it has one and the empty string when
\* it has none (null or empty).
C29_UploadThenRequestOrEmpty ==
    /\ UploadFirst(client.requests)
    /\ \A i \in UpdatesWithoutFile(client) :
          client.requests[i].body.documentUrl
            = (IF client.record[1].documentUrl \in {Null, Str("")} THEN Str("")
               ELSE client.record[1].documentUrl)
C29_Witness ==
    /\ client.modal = "convention"
    /\ client.record # <<>>
    /\ client.record[1].documentUrl = Null
    /\ Len(client.requests) = 3
    /\ 1 \in UpdatesWithoutFile(client)
    /\ client.requests[1].body.documentUrl = Str("")
    /\ client.requests[2].route = "POST /api/upload"
    /\ client.requests[2].status = 200
    /\ client.requests[3].body.documentUrl = Str(client.requests[2].url)

ProjectRoutes == {"POST /api/projects", "PUT /api/projects/:id"}
\* C30: in a mounted ProjectModal the submit that sends the request sets
\* isSubmitting, and nothing sets it back while the modal stays mounted; once
\* a create or update request has failed the modal is still open with its
\* submit button disabled; one modal sends at most one create or update request.
C30_OneRequestPerModal ==
    /\ [](client.modal = "project" =>
            /\ client.requests # <<>> => client.isSubmitting
            /\ client.mutation = "error" => ProjectModalDisabled(client)
            /\ Len(client.requests) <= 1
            /\ \A i \in 1..Len(client.requests) : client.requests[i].route \in ProjectRoutes)
    /\ [][(client.modal = "project" /\ client'.modal = "project")
            => /\ client.isSubmitting => client'.isSubmitting
               /\ Len(client'.requests) > Len(client.requests) =>
                    ~client.isSubmitting /\ client'.isSubmitting]_vars
C30_Witness ==
    /\ client.modal = "project"
    /\ client.mutation = "error"
    /\ Len(client.requests) = 1
    /\ client.requests[1].status = 500
    /\ client.isSubmitting

====
